---- MODULE Spec2Model ----
(***************************************************************************)
(* Model of the Zoclau CLI engine (ClaudeService in src/src/index.ts):     *)
(* the session/process orchestrator (sendMessage, abort), the stream event *)
(* normalizer, the command blocklist gate, the inactivity watchdog and the *)
(* conversation session map, the title generator.                          *)
(*                                                                         *)
(* Spec         - turn lifecycle: interleavings of sendMessage and abort   *)
(*                over the awaits of sendMessage (spawn, stdin write,      *)
(*                exit/watchdog race, drain).                              *)
(* SpecGate     - the blocklist gate on its own: handleToolUseBlock on any *)
(*                tool name and input under any of the settings.           *)
(* SpecStream   - one turn followed through its stdout: chunks are split   *)
(*                into lines, lines into events, events into callbacks,    *)
(*                until the turn settles (result, error, exit, timeout).   *)
(* SpecWatchdog - one turn against the clock: silence, stdout activity and *)
(*                the polls of the inactivity watchdog.                    *)
(* SpecSession  - the session map: session ids captured from the stream,   *)
(*                the --resume and permission arguments of the next turn.  *)
(* SpecLive     - Spec under the fairness of its awaits.                   *)
(* SpecConfig   - Spec with the CLI executable resolved from the settings, *)
(*                the PATH variable and the files that exist.              *)
(* SpecEvents   - the turn of SpecStream on a stream of replies, tool      *)
(*                results and error events, with reads from stderr.        *)
(* SpecExit     - the turn of SpecStream with its stderr text and its exit *)
(*                code (formatCliExitError).                               *)
(* SpecTitle    - generateConversationTitle beside the turns.              *)
(* SpecDrain    - the turn of SpecEvents with the wait for its read loops  *)
(*                after the exit on the clock.                             *)
(* SpecChunks   - the turn of SpecEvents on whole outputs cut into chunks  *)
(*                at any place.                                            *)
(* SpecFrame    - the session map beside abort, updateSettings and the     *)
(*                title generator.                                         *)
(* SpecTurns    - turn after turn in detail, on any conversations.         *)
(* SpecSettings - updateSettings between the starts of turns: arguments    *)
(*                and environment of the subprocess.                       *)
(* SpecTitleLive- generateConversationTitle by itself under the fairness   *)
(*                of its awaits.                                           *)
(* SpecManager  - the ConversationManager of the panel: its methods in any *)
(*                order, with the calendar moving on.                      *)
(* SpecPanel    - the chat panel (src/src/ui/ChatPanel.ts) over Spec and   *)
(*                the manager: handleSend, the message callback, and the   *)
(*                user switching, creating and deleting conversations.     *)
(*                                                                         *)
(* In the other specifications the chat panel is followed behind the       *)
(* callbacks of a turn.                                                    *)
(***************************************************************************)
EXTENDS Integers, Sequences, FiniteSets, TLC

\* ------------------------------------------------------------------------
\* Bounds
\* ------------------------------------------------------------------------
MaxTurns == 2       \* sendMessage calls that pass the guard
MaxToolLog == 1     \* tool_use blocks handled by the gate on its own
MaxChunks == 2      \* stdout chunks read in the turn followed in detail
TicksPerPoll == 5   \* steps of the clock between two polls of the watchdog
MaxStderrLines == 2 \* lines read from stderr in the turn followed in detail
TicksPerDrain == 3  \* steps of the clock within the wait of line 853
MaxConversations == 2   \* conversations created by the manager of the panel
MaxMessages == 2    \* messages kept per conversation
MaxClockSteps == 3  \* steps of the calendar of the manager
ClockStepDays == 45 \* days in one step of the calendar

\* ------------------------------------------------------------------------
\* Program constants
\* ------------------------------------------------------------------------
InactivityLimitMs == 180000
PollIntervalMs == 5000

DrainGraceMs == 1200

\* ConversationManager.ts, lines 11-12, in days
RetentionShortDays == 30
RetentionLongDays == 90

TickMs == PollIntervalMs \div TicksPerPoll
DrainTickMs == DrainGraceMs \div TicksPerDrain

Turns == 1..MaxTurns
Conversations == {"c1", "c2"}

\* ------------------------------------------------------------------------
\* State
\* ------------------------------------------------------------------------
VARIABLES
    \* engine fields
    isRunning,          \* ClaudeService.isRunning
    currentProcess,     \* ClaudeService.currentProcess: 0 = null, t = process of turn t
    abortRequested,     \* ClaudeService.abortRequested
    \* per sendMessage invocation (turn)
    pc,                 \* position of the async function
    procSt,             \* the turn's subprocess
    hasText,            \* fullResponse.trim() is non-empty
    streamReadError,    \* streamReadError !== null
    readLoop,           \* stdout read loop: "off", "on", "done"
    \* observations
    cbLog,              \* per turn: the callbacks fired, in order
    aborted,            \* abort() was called while the turn was in flight
    endClean,           \* busy false and handle null when stream-end fired
    \* the blocklist gate
    settings,           \* ClaudeService.settings (the blocklist texts, the permission mode)
    toolLog,            \* per tool_use block handled: what handleToolUseBlock did
    \* one turn's stream in detail (locals of sendMessage, lines 667-770)
    buffer,             \* the unterminated rest of stdout
    fullResponse,       \* the accumulated reply text
    streamPayloads,     \* what the stream callback was called with, call by call
    sawTextDelta,       \* streamState.sawTextDelta
    sawStructuredEvent, \* a stdout line parsed as JSON
    readError,          \* the exception kept in streamReadError
    streamOpen,         \* the stdout read loop is still reading
    chunksRead,         \* chunks read so far
    lastError,          \* the error handed to the error callback
    messageContent,     \* the content of the message handed to the message callback
    sessionByConversation,  \* ClaudeService.sessionByConversation
    args,               \* the --resume part of the arguments built last (lines 691-694)
    cliEnv,             \* settings.claudeCliPath, the PATH variable and the files that exist
    titleCall,          \* one call of generateConversationTitle: its position and locals
    \* observations on the stream, up to stream-end
    deltaText,          \* the texts of the text deltas processed, concatenated
    sawReplyText,       \* an assistant or result event carrying text was processed
    otherText,          \* text was appended from another source
    toolsInFlight,      \* tool_use blocks handled before stream-end fired
    toolResults,        \* the toolUseId of each tool-result callback, in order
    stderrOutput,       \* what the stderr read loop has collected
    errorSeen,          \* the first error event processed, and the reply then
    stdoutRead,         \* everything read from stdout before stream-end fired
    \* the inactivity watchdog (lines 826-837), times in milliseconds
    idleMs,             \* Date.now() - lastActivityAt
    sincePollMs,        \* time since the interval timer last fired
    timedOut,           \* the watchdog resolved the race
    \* observations on the clock
    elapsedMs,          \* time since the race started, up to the limit and a tick
    overLimit,          \* a silence longer than the limit has occurred
    steady,             \* no silence longer than half the limit has occurred
    \* the wait for the read loops after the exit (line 853)
    drainWaitMs,        \* time since the wait of line 853 began
    \* the ConversationManager of the chat panel
    conversations,      \* ConversationManager.conversations, the newest first
    messages,           \* ConversationManager.messages: conversation id -> messages
    activeConversationId,   \* ConversationManager.activeConversationId, NoId = null
    storedConversations,    \* the conversations preference (saveConversations)
    \* observations on the panel
    nowDays,            \* Date.now(), in days since the manager was built
    created,            \* the number of conversations created so far
    turnConversation    \* per turn: the conversation id handed to sendMessage

engineVars == <<isRunning, currentProcess, abortRequested>>
turnVars == <<pc, procSt, hasText, streamReadError, readLoop>>
obsVars == <<cbLog, aborted, endClean>>
lifeVars == <<engineVars, turnVars, obsVars>>
gateVars == <<settings, toolLog>>
streamVars == <<buffer, fullResponse, streamPayloads, sawTextDelta, sawStructuredEvent, readError,
                streamOpen, chunksRead, lastError, messageContent, deltaText,
                sawReplyText, otherText, toolsInFlight, toolResults, stderrOutput,
                errorSeen, stdoutRead>>
sessionVars == <<sessionByConversation, args, cliEnv, titleCall>>
clockVars == <<idleMs, sincePollMs, timedOut, elapsedMs, overLimit, steady, drainWaitMs>>
managerVars == <<conversations, messages, activeConversationId, storedConversations,
                 nowDays, created, turnConversation>>
auxVars == <<gateVars, streamVars, sessionVars, clockVars, managerVars>>
vars == <<lifeVars, auxVars>>

InFlight(t) == pc[t] \notin {"idle", "done"}

\* proc.wait() of turn t has resolved (ExitedOnlyByItself: it would not for a
\* process that was killed)
ExitedOnlyByItself(t) == procSt[t] \in {"exit0", "exit1"}

Exited(t) == procSt[t] \in {"exit0", "exit1", "killed"}

RangeOf(seq) == {seq[i] : i \in DOMAIN seq}

RECURSIVE Count(_, _)
Count(log, name) ==
    IF log = <<>> THEN 0
    ELSE (IF Head(log) = name THEN 1 ELSE 0) + Count(Tail(log), name)

\* ------------------------------------------------------------------------
\* Strings are sequences of one-character strings.
\* ------------------------------------------------------------------------
UpperChars == <<"A", "B", "C", "D", "E", "F", "G", "H", "I", "J", "K", "L", "M",
                "N", "O", "P", "Q", "R", "S", "T", "U", "V", "W", "X", "Y", "Z">>
LowerChars == <<"a", "b", "c", "d", "e", "f", "g", "h", "i", "j", "k", "l", "m",
                "n", "o", "p", "q", "r", "s", "t", "u", "v", "w", "x", "y", "z">>

LowerChar(c) ==
    IF \E i \in DOMAIN UpperChars : UpperChars[i] = c
    THEN LowerChars[CHOOSE i \in DOMAIN UpperChars : UpperChars[i] = c]
    ELSE c

\* String.prototype.toLowerCase
ToLowerCase(s) == [i \in 1..Len(s) |-> LowerChar(s[i])]

\* String.prototype.includes
Includes(s, sub) ==
    \E i \in 0..(Len(s) - Len(sub)) : SubSeq(s, i + 1, i + Len(sub)) = sub

\* String.prototype.startsWith
StartsWith(s, prefix) ==
    Len(prefix) <= Len(s) /\ SubSeq(s, 1, Len(prefix)) = prefix

IsSpace(c) == c \in {" ", "\t", "\n", "\r"}

RECURSIVE TrimStart(_)
TrimStart(s) == IF s # <<>> /\ IsSpace(Head(s)) THEN TrimStart(Tail(s)) ELSE s

RECURSIVE TrimEnd(_)
TrimEnd(s) ==
    IF s # <<>> /\ IsSpace(s[Len(s)]) THEN TrimEnd(SubSeq(s, 1, Len(s) - 1)) ELSE s

\* String.prototype.trim
Trim(s) == TrimEnd(TrimStart(s))

\* value.replace(/\r\n?/g, '\n')
RECURSIVE NormalizeNewlines(_)
NormalizeNewlines(s) ==
    IF s = <<>> THEN <<>>
    ELSE IF Head(s) = "\r"
         THEN IF Len(s) >= 2 /\ s[2] = "\n"
              THEN <<"\n">> \o NormalizeNewlines(SubSeq(s, 3, Len(s)))
              ELSE <<"\n">> \o NormalizeNewlines(Tail(s))
         ELSE <<Head(s)>> \o NormalizeNewlines(Tail(s))

\* String.prototype.split('\n'): cur is the piece being collected
RECURSIVE SplitLinesFrom(_, _)
SplitLinesFrom(s, cur) ==
    IF s = <<>> THEN <<cur>>
    ELSE IF Head(s) = "\n" THEN <<cur>> \o SplitLinesFrom(Tail(s), <<>>)
    ELSE SplitLinesFrom(Tail(s), Append(cur, Head(s)))

SplitLines(s) == SplitLinesFrom(s, <<>>)

RECURSIVE FilterRuleLines(_)
FilterRuleLines(lines) ==
    IF lines = <<>> THEN <<>>
    ELSE LET line == Trim(Head(lines)) IN
         IF line # <<>> /\ Head(line) # "#"
         THEN <<line>> \o FilterRuleLines(Tail(lines))
         ELSE FilterRuleLines(Tail(lines))

\* parseLineList (lines 1417-1423)
ParseLineList(value) == FilterRuleLines(SplitLines(NormalizeNewlines(value)))

\* ------------------------------------------------------------------------
\* Command blocklist gate (lines 1425-1518)
\* ------------------------------------------------------------------------
FlagChars == {"g", "i", "m", "s", "u", "y"}

\* index of the last "/" of the rule, 0 if none
LastSlash(rule) ==
    IF \E i \in 1..Len(rule) : rule[i] = "/"
    THEN CHOOSE i \in 1..Len(rule) :
            rule[i] = "/" /\ \A j \in (i + 1)..Len(rule) : rule[j] # "/"
    ELSE 0

\* pattern.match(/^\/(.+)\/([gimsuy]*)$/): the greedy body ends at the last
\* slash, and what follows it may hold flag letters only
IsRegexSyntax(rule) ==
    /\ Len(rule) >= 3
    /\ rule[1] = "/"
    /\ LastSlash(rule) >= 3
    /\ \A j \in (LastSlash(rule) + 1)..Len(rule) : rule[j] \in FlagChars

RegexBody(rule) == SubSeq(rule, 2, LastSlash(rule) - 1)

\* (match[2] || '').replace(/g/g, '')
RECURSIVE WithoutG(_)
WithoutG(flags) ==
    IF flags = <<>> THEN <<>>
    ELSE IF Head(flags) = "g" THEN WithoutG(Tail(flags))
    ELSE <<Head(flags)>> \o WithoutG(Tail(flags))

RegexFlags(rule) == WithoutG(SubSeq(rule, LastSlash(rule) + 1, Len(rule)))

\* new RegExp(body, flags) throws on a repeated flag and on a body that is
\* no pattern.  The rule texts of this model are written with literal
\* characters and "." (any character but a line break); the one invalid
\* body they contain is an unclosed "(".
RegexCompiles(body, flags) ==
    /\ \A i, j \in 1..Len(flags) : i # j => flags[i] # flags[j]
    /\ \A i \in 1..Len(body) : body[i] # "("

\* parseRegexRule (lines 1425-1435): TRUE when a RegExp is returned
ParseRegexRule(rule) ==
    IsRegexSyntax(rule) /\ RegexCompiles(RegexBody(rule), RegexFlags(rule))

AtomMatches(atom, c, ignoreCase) ==
    \/ atom = "." /\ c \notin {"\n", "\r"}
    \/ atom # "." /\ (IF ignoreCase THEN LowerChar(atom) = LowerChar(c) ELSE atom = c)

MatchesAt(body, flags, text, i) ==
    /\ i + Len(body) <= Len(text)
    /\ \A k \in 1..Len(body) :
          AtomMatches(body[k], text[i + k], \E f \in 1..Len(flags) : flags[f] = "i")

\* regex.test(command) on a fresh RegExp: a search from index 0, anchored
\* there by the sticky flag
RegexTest(body, flags, text) ==
    IF \E f \in 1..Len(flags) : flags[f] = "y"
    THEN MatchesAt(body, flags, text, 0)
    ELSE \E i \in 0..Len(text) : MatchesAt(body, flags, text, i)

\* JSON values of a tool input: t is "undef", "str", "num", "arr" or "obj"
Undef == [t |-> "undef", s |-> <<>>, a |-> <<>>]
Str(x) == [t |-> "str", s |-> x, a |-> <<>>]
Num == [t |-> "num", s |-> <<>>, a |-> <<>>]
Arr(xs) == [t |-> "arr", s |-> <<>>, a |-> xs]
NoFields == [command |-> Undef, cmd |-> Undef, script |-> Undef, input |-> Undef,
             text |-> Undef, commands |-> Undef, file_path |-> Undef]
Leaf(v) == [t |-> v.t, s |-> v.s, a |-> v.a, f |-> NoFields]
Obj(fields) == [t |-> "obj", s |-> <<>>, a |-> <<>>, f |-> fields]

IsShellLikeToolNoCheck(toolName) == TRUE

\* lines 1438-1445
IsShellLikeTool(toolName) ==
    LET lowerName == ToLowerCase(toolName) IN
    \/ Includes(lowerName, <<"b", "a", "s", "h">>)
    \/ Includes(lowerName, <<"s", "h", "e", "l", "l">>)
    \/ Includes(lowerName, <<"t", "e", "r", "m", "i", "n", "a", "l">>)
    \/ Includes(lowerName, <<"c", "o", "m", "m", "a", "n", "d">>)
    \/ Includes(lowerName, <<"c", "m", "d">>)

DirectKeys == <<"command", "cmd", "script", "input", "text">>

FieldOf(fields, key) ==
    CASE key = "command" -> fields.command
      [] key = "cmd" -> fields.cmd
      [] key = "script" -> fields.script
      [] key = "input" -> fields.input
      [] key = "text" -> fields.text

IsNonBlankString(v) == v.t = "str" /\ Trim(v.s) # <<>>

\* lines 1464-1470: the string entries, trimmed, non-empty, joined by " && "
RECURSIVE JoinCommands(_)
JoinCommands(entries) ==
    IF entries = <<>> THEN <<>>
    ELSE LET rest == JoinCommands(Tail(entries)) IN
         IF IsNonBlankString(Head(entries))
         THEN IF rest = <<>> THEN Trim(Head(entries).s)
              ELSE Trim(Head(entries).s) \o <<" ", "&", "&", " ">> \o rest
         ELSE rest

\* extractCommandTextFromToolInput (lines 1437-1474)
ExtractCommandTextFromToolInput(toolName, input) ==
    IF ~IsShellLikeTool(toolName) THEN <<>>
    ELSE IF input.t = "str" THEN Trim(input.s)
    ELSE IF input.t # "obj" THEN <<>>
    ELSE IF \E k \in DOMAIN DirectKeys : IsNonBlankString(FieldOf(input.f, DirectKeys[k]))
         THEN LET k == CHOOSE k \in DOMAIN DirectKeys :
                        /\ IsNonBlankString(FieldOf(input.f, DirectKeys[k]))
                        /\ \A j \in 1..(k - 1) : ~IsNonBlankString(FieldOf(input.f, DirectKeys[j]))
              IN Trim(FieldOf(input.f, DirectKeys[k]).s)
    ELSE IF input.f.commands.t = "arr" THEN Trim(JoinCommands(input.f.commands.a))
    ELSE <<>>

\* lines 1487-1498: whether one rule matches the command
RuleMatches(rule, command) ==
    IF ParseRegexRule(rule)
    THEN RegexTest(RegexBody(rule), RegexFlags(rule), command)
    ELSE Includes(ToLowerCase(command), ToLowerCase(rule))

\* lines 1478-1501: the first rule that matches the command, <<>> for null
FirstMatchingRule(blockRules, command) ==
    IF command = <<>> THEN <<>>
    ELSE IF \E i \in DOMAIN blockRules : RuleMatches(blockRules[i], command)
    THEN blockRules[CHOOSE i \in DOMAIN blockRules :
            /\ RuleMatches(blockRules[i], command)
            /\ \A j \in 1..(i - 1) : ~RuleMatches(blockRules[j], command)]
    ELSE <<>>

\* getBlockedCommandMatch (lines 1476-1502)
GetBlockedCommandMatch(toolName, input, cfg) ==
    FirstMatchingRule(ParseLineList(cfg.blockedCommandsWindows)
                          \o ParseLineList(cfg.blockedCommandsUnix),
                      ExtractCommandTextFromToolInput(toolName, input))

HandleToolUseBlockNoGate(block, cfg) ==
    [name |-> block.name, input |-> block.input, id |-> block.id,
     verdict |-> "delivered", rule |-> <<>>]

\* handleToolUseBlock (lines 1504-1518): what happens to one tool_use block
\* under the settings cfg: "blocked" is the exception naming the rule,
\* "delivered" the call of the tool-use callback
GateResult(block, blockedBy) ==
    [name |-> block.name, input |-> block.input, id |-> block.id,
     verdict |-> IF blockedBy # <<>> THEN "blocked" ELSE "delivered",
     rule |-> blockedBy]

HandleToolUseBlock(block, cfg) ==
    GateResult(block, GetBlockedCommandMatch(block.name, block.input, cfg))

\* ------------------------------------------------------------------------
\* Inputs of the gate: tool names, tool inputs and blocklist settings
\* ------------------------------------------------------------------------
CmdRm == <<"r", "m", " ", "-", "r", "f", " ", "/">>
CmdRmUpper == <<"R", "M", " ", "-", "R", "F", " ", "/">>
CmdRmPadded == <<" ", "r", "m", " ", "-", "r", "f", " ", "/", " ">>
CmdLs == <<"l", "s">>
CmdDel == <<"d", "e", "l", " ", "x">>
CmdBadRule == <<"a", "/", "r", "m", "/", "i", "i">>
Blank == <<" ", " ">>

ToolNames == <<
    <<"B", "a", "s", "h">>,
    <<"C", "M", "D">>,
    <<"P", "o", "w", "e", "r", "S", "h", "e", "l", "l">>,
    <<"T", "e", "r", "m", "i", "n", "a", "l">>,
    <<"r", "u", "n", "_", "c", "o", "m", "m", "a", "n", "d">>,
    <<"R", "e", "a", "d">>,
    <<"T", "e", "r", "m">>,
    <<>> >>

ToolInputs == <<
    Leaf(Str(CmdRmPadded)),
    Leaf(Undef),
    Leaf(Num),
    Leaf(Arr(<<Str(CmdRm)>>)),
    Obj([NoFields EXCEPT !.command = Str(CmdRm)]),
    Obj([NoFields EXCEPT !.command = Str(CmdLs)]),
    Obj([NoFields EXCEPT !.cmd = Str(CmdRmUpper)]),
    Obj([NoFields EXCEPT !.command = Num, !.script = Str(CmdDel)]),
    Obj([NoFields EXCEPT !.command = Str(Blank), !.text = Str(CmdRm)]),
    Obj([NoFields EXCEPT !.commands = Arr(<<Str(CmdLs), Num, Str(Blank), Str(CmdRmPadded)>>)]),
    Obj([NoFields EXCEPT !.command = Str(CmdBadRule)]),
    Obj([NoFields EXCEPT !.file_path = Str(CmdRm)]),
    Obj(NoFields) >>

\* settings: the blockedCommandsWindows and blockedCommandsUnix texts, the
\* permission mode (none, and a name of the CLI's own modes, included), the
\* model and the environmentVariables text (EnvTexts below)

SettingsChoices == <<
    \* 1: no rule
    [blockedCommandsWindows |-> <<>>, blockedCommandsUnix |-> <<>>,
     permissionMode |-> "yolo", model |-> "auto",
     environmentVariables |-> <<>>],
    \* 2: "DEL" with a CR LF; a comment, a blank line and "rm -rf" between blanks
    [blockedCommandsWindows |-> <<"D", "E", "L", "\r", "\n">>,
     blockedCommandsUnix |->
        <<"#", " ", "r", "m", "\n", " ", " ", "\n", " ", "r", "m", " ", "-", "r", "f", " ">>,
     permissionMode |-> "plan", model |-> "sonnet",
     environmentVariables |-> <<>>],
    \* 3: the regular expression /rm.-RF/gi, a CR, and "rm -rf"
    [blockedCommandsWindows |-> <<>>,
     blockedCommandsUnix |->
        <<"/", "r", "m", ".", "-", "R", "F", "/", "g", "i", "\r", "r", "m", " ", "-", "r", "f">>,
     permissionMode |-> "normal", model |-> "",
     environmentVariables |-> <<>>],
    \* 4: the sticky regular expression /-rf/y
    [blockedCommandsWindows |-> <<"/", "-", "r", "f", "/", "y">>,
     blockedCommandsUnix |-> <<>>,
     permissionMode |-> "", model |-> "opus",
     environmentVariables |-> <<>>],
    \* 5: /rm/ii and /(rm/, which do not compile; "DEL" with a CR LF
    [blockedCommandsWindows |->
        <<"/", "r", "m", "/", "i", "i", "\n", "/", "(", "r", "m", "/">>,
     blockedCommandsUnix |-> <<"D", "E", "L", "\r", "\n">>,
     permissionMode |-> "acceptEdits", model |-> "auto",
     environmentVariables |-> <<>>] >>

\* settings.environmentVariables: no line; K=1; an export line with blanks
\* and quotes, a CR LF and a comment; a line without key and one without
\* equals sign; an empty value and a value with one quote; K=1 written again
\* after another value
EnvTexts == <<
    <<>>,
    <<"K", "=", "1">>,
    <<"e", "x", "p", "o", "r", "t", " ", "K", " ", "=", " ", "U+0027", "2", "U+0027", "\r",
      "\n", "#", "L", "=", "1">>,
    <<"L", "=", "1", "\n", "=", "3", "\n", "K">>,
    <<"K", "=", "\n", "L", "=", "U+0022", "2">>,
    <<"K", "=", "3", "\n", "K", "=", "1">> >>

ToolIds == {"t1"}

\* ------------------------------------------------------------------------
\* The executable (lines 592-594, 1373-1415)
\* ------------------------------------------------------------------------
\* getCliPath (lines 592-594)
GetCliPath(claudeCliPath) ==
    IF claudeCliPath # <<>> THEN claudeCliPath ELSE <<"c", "l", "a", "u", "d", "e">>

\* String.prototype.split on a one-character separator
RECURSIVE SplitOn(_, _, _)
SplitOn(s, sep, cur) ==
    IF s = <<>> THEN <<cur>>
    ELSE IF Head(s) = sep THEN <<cur>> \o SplitOn(Tail(s), sep, <<>>)
    ELSE SplitOn(Tail(s), sep, Append(cur, Head(s)))

\* lines 1400-1403: the candidate of one directory and suffix, every slash
\* replaced by a backslash
TestPath(dir, name, suffix) ==
    LET joined == dir \o (IF dir[Len(dir)] \in {"/", "\\"} THEN <<>> ELSE <<"/">>)
                      \o name \o suffix
    IN [i \in DOMAIN joined |-> IF joined[i] = "/" THEN "\\" ELSE joined[i]]

\* lines 1397-1412: the first candidate that exists, <<>> if none does
RECURSIVE SearchPath(_, _, _, _)
SearchPath(dirs, name, ext, files) ==
    IF dirs = <<>> THEN <<>>
    ELSE LET hits == IF Head(dirs) = <<>> THEN {}
                     ELSE {k \in DOMAIN ext : TestPath(Head(dirs), name, ext[k]) \in files}
         IN IF hits # {}
            THEN TestPath(Head(dirs), name, ext[CHOOSE k \in hits : \A j \in hits : k <= j])
            ELSE SearchPath(Tail(dirs), name, ext, files)

\* a literal path is returned without a look at the files
ResolveCliExecutablePathUnchecked(cliPath, pathVar, files) ==
    LET normalizedCli == Trim(cliPath)
        windows == Includes(pathVar, <<";">>)
    IN IF normalizedCli = <<>> THEN <<>>
       ELSE IF Includes(normalizedCli, <<"/">>) \/ Includes(normalizedCli, <<"\\">>)
       THEN normalizedCli
       ELSE SearchPath(SplitOn(pathVar, IF windows THEN ";" ELSE ":", <<>>), normalizedCli,
                       IF windows THEN <<<<".", "e", "x", "e">>, <<".", "c", "m", "d">>,
                                         <<".", "b", "a", "t">>, <<>>>>
                       ELSE <<<<>>>>,
                       files)

\* resolveCliExecutablePath (lines 1373-1415); <<>> stands for the exception
ResolveCliExecutablePath(cliPath, pathVar, files) ==
    LET normalizedCli == Trim(cliPath)
        windows == Includes(pathVar, <<";">>)
    IN IF normalizedCli = <<>> THEN <<>>
       ELSE IF Includes(normalizedCli, <<"/">>) \/ Includes(normalizedCli, <<"\\">>)
       THEN (IF normalizedCli \in files THEN normalizedCli ELSE <<>>)
       ELSE SearchPath(SplitOn(pathVar, IF windows THEN ";" ELSE ":", <<>>), normalizedCli,
                       IF windows THEN <<<<".", "e", "x", "e">>, <<".", "c", "m", "d">>,
                                         <<".", "b", "a", "t">>, <<>>>>
                       ELSE <<<<>>>>,
                       files)

\* the configured path, the PATH variable and the files of the machine;
\* windows tells the host (the code never asks for it: it looks for a
\* semicolon in PATH, lines 1394-1395); vars = the variables set in the
\* environment of the host process, as <<key, value>> pairs (none at first)
CliEnvs == <<
    \* a literal path that exists
    [claudeCliPath |-> <<"/", "b", "/", "c", "l", "a", "u", "d", "e">>,
     PATH |-> <<>>,
     files |-> {<<"/", "b", "/", "c", "l", "a", "u", "d", "e">>},
     windows |-> FALSE, vars |-> {}],
    \* a literal path that does not exist
    [claudeCliPath |-> <<"/", "n", "/", "c", "l", "a", "u", "d", "e">>,
     PATH |-> <<"/", "b">>,
     files |-> {<<"/", "b", "/", "c", "l", "a", "u", "d", "e">>},
     windows |-> FALSE, vars |-> {}],
    \* a blank path
    [claudeCliPath |-> <<" ">>,
     PATH |-> <<"/", "b">>,
     files |-> {<<"/", "b", "/", "c", "l", "a", "u", "d", "e">>},
     windows |-> FALSE, vars |-> {}],
    \* no path (the name claude is searched), found with the suffix .cmd
    [claudeCliPath |-> <<>>,
     PATH |-> <<"\\", "a", ";", "\\", "b", "\\">>,
     files |-> {<<"\\", "b", "\\", "c", "l", "a", "u", "d", "e", ".", "c", "m", "d">>},
     windows |-> TRUE, vars |-> {}],
    \* no path, claude in no PATH directory
    [claudeCliPath |-> <<>>,
     PATH |-> <<"\\", "a", ";", "\\", "b">>,
     files |-> {<<"\\", "a", "\\", "x">>},
     windows |-> TRUE, vars |-> {}],
    \* a bare name between blanks, in the second directory after an empty entry
    [claudeCliPath |-> <<" ", "c", "l", " ">>,
     PATH |-> <<"\\", "a", ";", ";", "\\", "b">>,
     files |-> {<<"\\", "b", "\\", "c", "l">>},
     windows |-> TRUE, vars |-> {}],
    \* a bare name in a directory of a PATH separated by colons
    [claudeCliPath |-> <<"c", "l">>,
     PATH |-> <<"/", "a", ":", "/", "b">>,
     files |-> {<<"/", "b", "/", "c", "l">>},
     windows |-> FALSE, vars |-> {}],
    \* a bare name and an empty PATH
    [claudeCliPath |-> <<"c", "l">>,
     PATH |-> <<>>,
     files |-> {<<"\\", "b", "\\", "c", "l">>},
     windows |-> TRUE, vars |-> {}],
    \* a bare name with the suffix .exe in the only directory of PATH
    [claudeCliPath |-> <<"c", "l">>,
     PATH |-> <<"\\", "b">>,
     files |-> {<<"\\", "b", "\\", "c", "l", ".", "e", "x", "e">>},
     windows |-> TRUE, vars |-> {}] >>

\* ------------------------------------------------------------------------
\* The session map and --resume (lines 691-694, 1099-1106, 1689-1691)
\* ------------------------------------------------------------------------
HexChars == {"0", "1", "2", "3", "4", "5", "6", "7", "8", "9", "a", "b", "c", "d", "e", "f"}

\* the regular expression of line 1690, one character class per position:
\* "h" is [0-9a-f], "v" is [1-5], "r" is [89ab], "-" is the dash
UuidPattern ==
    <<"h", "h", "h", "h", "h", "h", "h", "h", "-", "h", "h", "h", "h", "-",
      "v", "h", "h", "h", "-", "r", "h", "h", "h", "-",
      "h", "h", "h", "h", "h", "h", "h", "h", "h", "h", "h", "h">>

\* one class against one character, under the i flag
ClassMatches(class, c) ==
    CASE class = "h" -> LowerChar(c) \in HexChars
      [] class = "v" -> c \in {"1", "2", "3", "4", "5"}
      [] class = "r" -> LowerChar(c) \in {"8", "9", "a", "b"}
      [] OTHER -> c = "-"

IsValidUuidAnyDigit(value) ==
    /\ Len(value) = Len(UuidPattern)
    /\ \A i \in 1..Len(value) :
          ClassMatches(IF UuidPattern[i] = "-" THEN "-" ELSE "h", value[i])

\* isValidUuid (lines 1689-1691): the pattern anchored at both ends
IsValidUuid(value) ==
    /\ Len(value) = Len(UuidPattern)
    /\ \A i \in 1..Len(value) : ClassMatches(UuidPattern[i], value[i])

\* lines 691-694: the token passed with --resume, <<>> when none is passed
ResumeSessionId(stored) == IF stored # <<>> /\ IsValidUuid(stored) THEN stored ELSE <<>>

\* tokens a stream may carry as session_id
SessionTokens == <<
    \* 1: a version 4 UUID in lower case
    <<"1", "2", "3", "e", "4", "5", "6", "7", "-", "e", "8", "9", "b", "-", "4", "2", "d", "3", "-", "a", "4", "5", "6", "-", "4", "2", "6", "6", "1", "4", "1", "7", "4", "0", "0", "0">>,
    \* 2: a version 1 UUID in upper case
    <<"1", "2", "3", "E", "4", "5", "6", "7", "-", "E", "8", "9", "B", "-", "1", "2", "D", "3", "-", "B", "4", "5", "6", "-", "4", "2", "6", "6", "1", "4", "1", "7", "4", "0", "0", "F">>,
    \* 3: version digit 6
    <<"1", "2", "3", "e", "4", "5", "6", "7", "-", "e", "8", "9", "b", "-", "6", "2", "d", "3", "-", "a", "4", "5", "6", "-", "4", "2", "6", "6", "1", "4", "1", "7", "4", "0", "0", "0">>,
    \* 4: version digit 0
    <<"1", "2", "3", "e", "4", "5", "6", "7", "-", "e", "8", "9", "b", "-", "0", "2", "d", "3", "-", "8", "4", "5", "6", "-", "4", "2", "6", "6", "1", "4", "1", "7", "4", "0", "0", "0">>,
    \* 5: variant digit c
    <<"1", "2", "3", "e", "4", "5", "6", "7", "-", "e", "8", "9", "b", "-", "4", "2", "d", "3", "-", "c", "4", "5", "6", "-", "4", "2", "6", "6", "1", "4", "1", "7", "4", "0", "0", "0">>,
    \* 6: a letter that is no hexadecimal digit
    <<"g", "2", "3", "e", "4", "5", "6", "7", "-", "e", "8", "9", "b", "-", "4", "2", "d", "3", "-", "a", "4", "5", "6", "-", "4", "2", "6", "6", "1", "4", "1", "7", "4", "0", "0", "0">>,
    \* 7: a letter in place of the first dash
    <<"1", "2", "3", "e", "4", "5", "6", "7", "a", "e", "8", "9", "b", "-", "4", "2", "d", "3", "-", "a", "4", "5", "6", "-", "4", "2", "6", "6", "1", "4", "1", "7", "4", "0", "0", "0">>,
    \* 8: one character short
    <<"1", "2", "3", "e", "4", "5", "6", "7", "-", "e", "8", "9", "b", "-", "4", "2", "d", "3", "-", "a", "4", "5", "6", "-", "4", "2", "6", "6", "1", "4", "1", "7", "4", "0", "0">>,
    \* 9: a UUID followed by a newline
    <<"1", "2", "3", "e", "4", "5", "6", "7", "-", "e", "8", "9", "b", "-", "4", "2", "d", "3", "-", "a", "4", "5", "6", "-", "4", "2", "6", "6", "1", "4", "1", "7", "4", "0", "0", "0", "\n">>,
    \* 10: a UUID after a blank
    <<" ", "1", "2", "3", "e", "4", "5", "6", "7", "-", "e", "8", "9", "b", "-", "4", "2", "d", "3", "-", "a", "4", "5", "6", "-", "4", "2", "6", "6", "1", "4", "1", "7", "4", "0", "0", "0">>,
    \* 11: a word
    <<"l", "a", "t", "e", "s", "t">> >>

\* ------------------------------------------------------------------------
\* Stream events and stdout text.  A stdout text is a sequence of tokens: a
\* newline, a blank, the "data:" prefix, "[DONE]", plain characters, or the
\* JSON text of one event (s abbreviates its characters).
\* ------------------------------------------------------------------------
NoBlock == [type |-> "none", text |-> <<>>, name |-> <<>>, input |-> Leaf(Undef), id |-> ""]
TextBlock(x) == [NoBlock EXCEPT !.type = "text", !.text = x]
ToolUseBlock(name, input, id) ==
    [NoBlock EXCEPT !.type = "tool_use", !.name = name, !.input = input, !.id = id]
\* a tool_result block; id is its tool_use_id
ToolResultBlock(id) == [NoBlock EXCEPT !.type = "tool_result", !.id = id]

\* text: delta.text of a text delta, result of a result event, error of an
\* error event, text otherwise;
\* block: content_block of content_block_start, the event itself for tool_use
\* and tool_result;
\* content: message.content of an assistant or user event when it is an array;
\* wrapped: the event is the event field of a stream_event wrapper, and
\* wrapper_session_id is the session_id of that wrapper; session_id is the
\* one of the event itself.  handleStreamEvent recurses on the nested event
\* and returns (lines 1094-1097): it reads no other field of the wrapper.
NoEvent == [type |-> "", wrapped |-> FALSE, text |-> <<>>, block |-> NoBlock,
            content |-> <<>>, session_id |-> <<>>, wrapper_session_id |-> <<>>]

\* an exception: rule is what its message quotes (the rule of the blocklist,
\* the message of an error event, the hint of an empty reply)
NoThrow == [kind |-> "none", rule |-> <<>>]

NoErrorSeen == [seen |-> FALSE, message |-> <<>>, text |-> <<>>, tools |-> 0, results |-> 0]

NL == [k |-> "nl", ev |-> NoEvent, s |-> <<"\n">>]
SP == [k |-> "sp", ev |-> NoEvent, s |-> <<" ">>]
DataPrefix == [k |-> "data", ev |-> NoEvent, s |-> <<"d", "a", "t", "a", ":">>]
DoneMark == [k |-> "done", ev |-> NoEvent, s |-> <<"[", "D", "O", "N", "E", "]">>]
Plain(x) == [k |-> "txt", ev |-> NoEvent, s |-> x]
Json(ev) == [k |-> "json", ev |-> ev, s |-> <<"{", "}">>]

RECURSIVE Render(_)
Render(tokens) == IF tokens = <<>> THEN <<>> ELSE Head(tokens).s \o Render(Tail(tokens))

\* String.prototype.trim on a token text
RECURSIVE TrimTokensStart(_)
TrimTokensStart(line) ==
    IF line # <<>> /\ Head(line).k = "sp" THEN TrimTokensStart(Tail(line)) ELSE line

RECURSIVE TrimTokensEnd(_)
TrimTokensEnd(line) ==
    IF line # <<>> /\ line[Len(line)].k = "sp"
    THEN TrimTokensEnd(SubSeq(line, 1, Len(line) - 1)) ELSE line

TrimTokens(line) == TrimTokensEnd(TrimTokensStart(line))

\* normalizeOutputLine (lines 1185-1196); <<>> stands for null
NormalizeOutputLine(line) ==
    LET trimmed == TrimTokens(line) IN
    IF trimmed = <<>> THEN <<>>
    ELSE IF trimmed = <<DoneMark>> THEN <<>>
    ELSE IF Head(trimmed).k = "txt" /\ StartsWith(Head(trimmed).s, <<"e", "v", "e", "n", "t", ":">>)
         THEN <<>>
    ELSE IF Head(trimmed).k = "txt" /\ StartsWith(Head(trimmed).s, <<":">>) THEN <<>>
    ELSE IF Head(trimmed).k = "data" THEN TrimTokens(Tail(trimmed))
    ELSE trimmed

\* buffer.split('\n') (line 779): the pieces between newlines, the last one
\* being the unterminated rest
RECURSIVE SplitTokensFrom(_, _)
SplitTokensFrom(text, cur) ==
    IF text = <<>> THEN <<cur>>
    ELSE IF Head(text).k = "nl" THEN <<cur>> \o SplitTokensFrom(Tail(text), <<>>)
    ELSE SplitTokensFrom(Tail(text), Append(cur, Head(text)))

SplitTokens(text) == SplitTokensFrom(text, <<>>)

\* the text would be put in front of the reply
AppendStreamingTextInFront(S, text, src) ==
    IF text = <<>> THEN S
    ELSE [S EXCEPT !.fullResponse = text \o @,
                   !.payloads = Append(@, [text |-> text \o S.fullResponse,
                                           messageId |-> S.messageId]),
                   !.streamed = TRUE,
                   !.deltaText = IF src = "delta" THEN @ \o text ELSE @,
                   !.otherText = @ \/ src = "other"]

\* the callback would get the appended text, not the whole reply
AppendStreamingTextDeltaPayload(S, text, src) ==
    IF text = <<>> THEN S
    ELSE [S EXCEPT !.fullResponse = @ \o text,
                   !.payloads = Append(@, [text |-> text, messageId |-> S.messageId]),
                   !.streamed = TRUE,
                   !.deltaText = IF src = "delta" THEN @ \o text ELSE @,
                   !.otherText = @ \/ src = "other"]

\* appendStreamingText (lines 740-744); src tells the observer where the text
\* came from: "delta", "reply" (assistant or result event) or "other"
AppendStreamingText(S, text, src) ==
    IF text = <<>> THEN S
    ELSE [S EXCEPT !.fullResponse = @ \o text,
                   !.payloads = Append(@, [text |-> S.fullResponse \o text,
                                           messageId |-> S.messageId]),
                   !.streamed = TRUE,
                   !.deltaText = IF src = "delta" THEN @ \o text ELSE @,
                   !.otherText = @ \/ src = "other"]

\* extractTextValue (lines 1253-1290) on an event of the shape NoEvent
ExtractTextValue(ev) == IF Trim(ev.text) # <<>> THEN ev.text ELSE <<>>

\* a call of handleToolUseBlock inside the event handlers
ToolUseDone(S, r) ==
    [S EXCEPT !.toolLog = Append(@, r),
              !.thrown = IF r.verdict = "blocked"
                         THEN [kind |-> "blocked", rule |-> r.rule] ELSE @]

ToolUseStep(S, block, cfg) ==
    ToolUseDone(S, HandleToolUseBlock([name |-> block.name, input |-> block.input,
                                       id |-> block.id], cfg))

\* only the result of a tool use that was delivered would be passed on
ToolResultStepMatched(S, block) ==
    IF \E i \in DOMAIN S.toolLog : S.toolLog[i].id = block.id
    THEN [S EXCEPT !.toolResults = Append(@, block.id)]
    ELSE S

\* onToolResultCallback is called for a tool_result event or block
\* (lines 1164-1169, 1217-1224, 1244-1249)
ToolResultStep(S, block) == [S EXCEPT !.toolResults = Append(@, block.id)]

\* handleAssistantMessage (lines 1198-1234), the loop over message.content
RECURSIVE HandleBlocks(_, _, _, _)
HandleBlocks(S, blocks, skipText, cfg) ==
    IF blocks = <<>> \/ S.thrown.kind # "none" THEN S
    ELSE LET block == Head(blocks)
             S1 == IF ~skipText /\ block.type = "text" /\ block.text # <<>>
                   THEN AppendStreamingText(S, block.text, "reply")
                   ELSE IF block.type = "tool_use" THEN ToolUseStep(S, block, cfg)
                   ELSE IF block.type = "tool_result" THEN ToolResultStep(S, block)
                   ELSE S
         IN HandleBlocks(S1, Tail(blocks), skipText, cfg)

\* handleUserMessage (lines 1236-1251), the loop over message.content
RECURSIVE HandleUserMessage(_, _)
HandleUserMessage(S, blocks) ==
    IF blocks = <<>> THEN S
    ELSE HandleUserMessage(IF Head(blocks).type = "tool_result"
                           THEN ToolResultStep(S, Head(blocks)) ELSE S,
                           Tail(blocks))

\* extractErrorMessage (lines 1323-1338) on an event of the shape NoEvent:
\* event.error when it is a non-blank string, else the event as JSON
ExtractErrorMessage(ev) == IF Trim(ev.text) # <<>> THEN ev.text ELSE <<"{", "}">>

\* line 1173: the error event throws; the observer notes the first one
ErrorEventThrown(S, ev) ==
    [S EXCEPT !.thrown = [kind |-> "event", rule |-> ExtractErrorMessage(ev)],
              !.errorSeen = IF @.seen THEN @
                            ELSE [seen |-> TRUE, message |-> ExtractErrorMessage(ev),
                                  text |-> S.fullResponse, tools |-> Len(S.toolLog),
                                  results |-> Len(S.toolResults)]]

HasTextBlock(blocks) == \E i \in DOMAIN blocks : blocks[i].type = "text" /\ blocks[i].text # <<>>

\* lines 1099-1106: a non-empty session_id replaces the conversation's entry
CaptureSessionId(S, ev) ==
    IF ev.session_id # <<>> THEN [S EXCEPT !.session = ev.session_id] ELSE S

\* handleStreamEvent (lines 1084-1183).  A stream_event wrapper is replaced by
\* the event it carries (lines 1094-1097), none of its other fields is read.
\* lines 1108-1182, the dispatch on event.type
DispatchEvent(S, ev, cfg) ==
    IF ev.type = ""
    THEN AppendStreamingText(S, ExtractTextValue(ev), "other")
    ELSE CASE ev.type = "assistant" -> HandleBlocks(S, ev.content, S.sawTextDelta, cfg)
           [] ev.type = "user" -> HandleUserMessage(S, ev.content)
           [] ev.type = "system" -> S
           [] ev.type = "tool_result" -> ToolResultStep(S, ev.block)
           [] ev.type \in {"content_block_start", "tool_use"} ->
                IF ev.type = "tool_use" \/ ev.block.type = "tool_use"
                THEN ToolUseStep(S, ev.block, cfg)
                ELSE S
           [] ev.type = "content_block_delta" ->
                IF ev.text # <<>>
                THEN AppendStreamingText([S EXCEPT !.sawTextDelta = TRUE], ev.text, "delta")
                ELSE S
           [] ev.type = "result" ->
                IF ~S.sawTextDelta /\ Trim(ev.text) # <<>>
                THEN AppendStreamingText(S, ev.text, "reply")
                ELSE S
           [] ev.type = "error" -> ErrorEventThrown(S, ev)
           [] OTHER -> AppendStreamingText(S, ExtractTextValue(ev), "other")

\* the observer notes an assistant or result event that carries text
NoteReplyText(S, ev) ==
    [S EXCEPT !.sawReplyText = @ \/ (ev.type = "assistant" /\ HasTextBlock(ev.content))
                                 \/ (ev.type = "result" /\ Trim(ev.text) # <<>>)]

HandleStreamEvent(S, ev, cfg) ==
    DispatchEvent(NoteReplyText(CaptureSessionId(S, ev), ev), ev, cfg)

\* processOutputLine (lines 751-766): a line is JSON when it is the text of
\* one event and nothing else
\* a line that is not JSON would be dropped once a text delta was seen
ProcessNormalizedAfterDelta(S, normalized, cfg) ==
    IF normalized = <<>> THEN S
    ELSE IF Len(normalized) = 1 /\ normalized[1].k = "json"
    THEN HandleStreamEvent([S EXCEPT !.sawStructuredEvent = TRUE], normalized[1].ev, cfg)
    ELSE IF S.sawTextDelta THEN S
    ELSE AppendStreamingText(S, Render(normalized) \o <<"\n">>, "other")

ProcessNormalized(S, normalized, cfg) ==
    IF normalized = <<>> THEN S
    ELSE IF Len(normalized) = 1 /\ normalized[1].k = "json"
    THEN HandleStreamEvent([S EXCEPT !.sawStructuredEvent = TRUE], normalized[1].ev, cfg)
    ELSE AppendStreamingText(S, Render(normalized) \o <<"\n">>, "other")

ProcessOutputLine(S, line, cfg) == ProcessNormalized(S, NormalizeOutputLine(line), cfg)

\* lines 782-784: the lines of one chunk in order, up to the first exception
RECURSIVE ProcessLines(_, _, _)
ProcessLines(S, lines, cfg) ==
    IF lines = <<>> \/ S.thrown.kind # "none" THEN S
    ELSE ProcessLines(ProcessOutputLine(S, Head(lines), cfg), Tail(lines), cfg)

\* ------------------------------------------------------------------------
\* formatCliExitError (lines 1700-1745).  The message is given by the name of
\* its template, followed for the generic one by the exit code and the text.
\* ------------------------------------------------------------------------
ExitTemplate(exitCode, cleaned, lower) ==
    \* "requires git-bash"
    IF Includes(lower, <<"r", "e", "q", "u", "i", "r", "e", "s", " ", "g", "i", "t", "-", "b", "a", "s", "h">>)
    THEN <<"git-bash">>
    ELSE
    \* "unable to find claude_code_git_bash_path"
    IF Includes(lower, <<"u", "n", "a", "b", "l", "e", " ", "t", "o", " ", "f", "i", "n", "d", " ", "c", "l", "a", "u", "d", "e", "_", "c", "o", "d", "e", "_", "g", "i", "t", "_", "b", "a", "s", "h", "_", "p", "a", "t", "h">>)
    THEN <<"git-bash-path">>
    ELSE
    \* "session id" and "already in use"
    IF /\ Includes(lower, <<"s", "e", "s", "s", "i", "o", "n", " ", "i", "d">>)
          /\ Includes(lower, <<"a", "l", "r", "e", "a", "d", "y", " ", "i", "n", " ", "u", "s", "e">>)
    THEN <<"session-locked">>
    ELSE
    \* "invalid json provided to --settings"
    IF Includes(lower, <<"i", "n", "v", "a", "l", "i", "d", " ", "j", "s", "o", "n", " ", "p", "r", "o", "v", "i", "d", "e", "d", " ", "t", "o", " ", "-", "-", "s", "e", "t", "t", "i", "n", "g", "s">>)
    THEN <<"settings-json">>
    ELSE
    \* "requires --verbose" and "stream-json"
    IF /\ Includes(lower, <<"r", "e", "q", "u", "i", "r", "e", "s", " ", "-", "-", "v", "e", "r", "b", "o", "s", "e">>)
          /\ Includes(lower, <<"s", "t", "r", "e", "a", "m", "-", "j", "s", "o", "n">>)
    THEN <<"verbose">>
    ELSE
    \* "unknown option" and "--thinking-budget"
    IF /\ Includes(lower, <<"u", "n", "k", "n", "o", "w", "n", " ", "o", "p", "t", "i", "o", "n">>)
          /\ Includes(lower, <<"-", "-", "t", "h", "i", "n", "k", "i", "n", "g", "-", "b", "u", "d", "g", "e", "t">>)
    THEN <<"thinking-budget">>
    ELSE
    \* "unknown option" and "--max-turns"
    IF /\ Includes(lower, <<"u", "n", "k", "n", "o", "w", "n", " ", "o", "p", "t", "i", "o", "n">>)
          /\ Includes(lower, <<"-", "-", "m", "a", "x", "-", "t", "u", "r", "n", "s">>)
    THEN <<"max-turns">>
    ELSE
    \* "not authenticated" or "claude auth" (the test for run "claude auth",
    \* a text that holds claude auth, adds nothing)
    IF \/ Includes(lower, <<"n", "o", "t", " ", "a", "u", "t", "h", "e", "n", "t", "i", "c", "a", "t", "e", "d">>)
       \/ Includes(lower, <<"c", "l", "a", "u", "d", "e", " ", "a", "u", "t", "h">>)
    THEN <<"auth">>
    ELSE IF cleaned # <<>> THEN <<"generic", exitCode>> \o cleaned
    ELSE IF exitCode = "-9" THEN <<"ended-unexpectedly">>
    ELSE <<"code-only", exitCode>>

\* every stderr is answered with the generic message
FormatCliExitErrorGeneric(exitCode, stderrText) ==
    IF Trim(stderrText) # <<>> THEN <<"generic", exitCode>> \o Trim(stderrText)
    ELSE <<"code-only", exitCode>>

FormatCliExitError(exitCode, stderrText) ==
    ExitTemplate(exitCode, Trim(stderrText), ToLowerCase(Trim(stderrText)))

\* waitResult.exitCode (line 850) for the ways a process ends
ExitCode(st) == CASE st = "exit0" -> "0" [] st = "exit1" -> "1" [] OTHER -> "-9"

\* ------------------------------------------------------------------------
\* sendMessage: how the try block ends once the drain is over (lines 860-900)
\* ------------------------------------------------------------------------
OutcomeNoEmptyCheck(readErr, abortReq, exitOk, text) ==
    IF readErr THEN "stream"
    ELSE IF abortReq THEN "silent"
    ELSE IF ~exitOk THEN "exit"
    ELSE IF text THEN "message"
    ELSE "silent"

Outcome(readErr, abortReq, exitOk, text) ==
    IF readErr THEN "stream"
    ELSE IF abortReq THEN "silent"
    ELSE IF ~exitOk THEN "exit"
    ELSE IF ~text THEN "empty"
    ELSE "message"

\* catch block (lines 901-908): a thrown error is dropped when abort is requested
Catch(kind, abortReq) ==
    IF kind \in {"message", "silent"} THEN kind
    ELSE IF abortReq THEN "silent" ELSE kind

\* finally block (lines 909-914)
FinallyKeepsHandle(t, log) ==
    /\ isRunning' = FALSE
    /\ currentProcess' = currentProcess
    /\ abortRequested' = FALSE
    /\ cbLog' = [cbLog EXCEPT ![t] = Append(log, "end")]
    /\ endClean' = [endClean EXCEPT ![t] = (~isRunning' /\ currentProcess' = 0)]
    /\ pc' = [pc EXCEPT ![t] = "done"]

Finally(t, log) ==
    /\ isRunning' = FALSE
    /\ currentProcess' = 0
    /\ abortRequested' = FALSE
    /\ cbLog' = [cbLog EXCEPT ![t] = Append(log, "end")]
    /\ endClean' = [endClean EXCEPT ![t] = (~isRunning' /\ currentProcess' = 0)]
    /\ pc' = [pc EXCEPT ![t] = "done"]

\* The turn leaves the try block with `kind` (a result or a thrown error)
\* while the abort flag reads abortReq and the turn's callback log is `log`.
Settle(t, kind, abortReq, log) ==
    LET outcome == Catch(kind, abortReq)
        isErr == outcome \notin {"message", "silent"}
        log2 == IF outcome = "message" THEN Append(log, "message")
                ELSE IF isErr THEN Append(log, "error")
                ELSE log
    IN  /\ hasText' = [hasText EXCEPT ![t] = FALSE]
        /\ streamReadError' = [streamReadError EXCEPT ![t] = FALSE]
        /\ readLoop' = [readLoop EXCEPT ![t] = "off"]
        /\ Finally(t, log2)

\* proc.kill() on the process of turn t
Kill(st, t) == [st EXCEPT ![t] = IF @ = "alive" THEN "killed" ELSE @]

\* ------------------------------------------------------------------------
\* sendMessage (lines 657-915)
\* ------------------------------------------------------------------------
LifeInit ==
    /\ isRunning = FALSE
    /\ currentProcess = 0
    /\ abortRequested = FALSE
    /\ pc = [t \in Turns |-> "idle"]
    /\ procSt = [t \in Turns |-> "none"]
    /\ hasText = [t \in Turns |-> FALSE]
    /\ streamReadError = [t \in Turns |-> FALSE]
    /\ readLoop = [t \in Turns |-> "off"]
    /\ cbLog = [t \in Turns |-> <<>>]
    /\ aborted = [t \in Turns |-> FALSE]
    /\ endClean = [t \in Turns |-> TRUE]

\* the locals of a turn before its read loop starts, and the observations
StreamRest ==
    /\ buffer = <<>>
    /\ fullResponse = <<>>
    /\ streamPayloads = <<>>
    /\ sawTextDelta = FALSE
    /\ sawStructuredEvent = FALSE
    /\ readError = NoThrow
    /\ streamOpen = FALSE
    /\ chunksRead = 0
    /\ lastError = NoThrow
    /\ messageContent = <<>>
    /\ deltaText = <<>>
    /\ sawReplyText = FALSE
    /\ otherText = FALSE
    /\ toolsInFlight = 0
    /\ toolResults = <<>>
    /\ stderrOutput = <<>>
    /\ errorSeen = NoErrorSeen
    /\ stdoutRead = <<>>

ClockRest ==
    /\ idleMs = 0
    /\ sincePollMs = 0
    /\ timedOut = FALSE
    /\ elapsedMs = 0
    /\ overLimit = FALSE
    /\ steady = TRUE
    /\ drainWaitMs = 0

NoArgs == [conversation |-> "", hasResume |-> FALSE, resume |-> <<>>, stored |-> <<>>,
           permission |-> <<>>]

\* line 562: the session map of a new engine is empty
\* no call of generateConversationTitle yet; value <<>> stands for null
NoTitleCall ==
    [pc |-> "idle", proc |-> "none", fullResponse |-> <<>>, buffer |-> <<>>,
     sawTextDelta |-> FALSE, chunks |-> 0, value |-> <<>>, threw |-> FALSE,
     argv |-> <<>>]

SessionRest ==
    /\ sessionByConversation = [c \in Conversations |-> <<>>]
    /\ args = NoArgs
    /\ cliEnv = CliEnvs[1]
    /\ titleCall = NoTitleCall

\* ------------------------------------------------------------------------
\* The ConversationManager of the chat panel (ui/ConversationManager.ts).
\* M is the manager as one value: its three fields and the conversations
\* preference that save and load go through.  A conversation is its id and
\* its two stamps (the title has no part in what follows but its length,
\* which decides the retention: retentionDays is either of the two).
\* ------------------------------------------------------------------------
NoId == <<>>

\* the ids that create() makes, one after the other (a time and a random part
\* in the code: never one that was made before)
ConversationIds == [n \in 1..MaxConversations |-> <<"conv", n>>]

NoMessages == [k \in {} |-> <<>>]

ConvIdsOf(list) == {list[i].id : i \in DOMAIN list}

\* this.conversations[0]?.id || null
FirstId(list) == IF list = <<>> THEN NoId ELSE list[1].id

Stamp(conv) == IF conv.updatedAt >= conv.createdAt THEN conv.updatedAt ELSE conv.createdAt

\* Array.prototype.sort((a, b) => b.updatedAt - a.updatedAt), which is stable
RECURSIVE InsertByUpdatedAt(_, _)
InsertByUpdatedAt(conv, sorted) ==
    IF sorted = <<>> THEN <<conv>>
    ELSE IF Head(sorted).updatedAt >= conv.updatedAt
    THEN <<Head(sorted)>> \o InsertByUpdatedAt(conv, Tail(sorted))
    ELSE <<conv>> \o sorted

RECURSIVE SortByUpdatedAt(_)
SortByUpdatedAt(list) ==
    IF list = <<>> THEN <<>>
    ELSE InsertByUpdatedAt(list[Len(list)], SortByUpdatedAt(SubSeq(list, 1, Len(list) - 1)))

\* pruneExpiredConversations (lines 190-225)
PruneExpiredConversations(M, now, retentionDays) ==
    IF M.conversations = <<>> THEN M
    ELSE LET Fresh(conv) == Stamp(conv) >= now - retentionDays
             kept == SelectSeq(M.conversations, Fresh)
             keepIds == ConvIdsOf(kept)
         IN  [conversations |-> kept,
              messages |-> [k \in (DOMAIN M.messages) \cap keepIds |-> M.messages[k]],
              activeConversationId |->
                  IF M.activeConversationId # NoId /\ M.activeConversationId \notin keepIds
                  THEN FirstId(kept) ELSE M.activeConversationId,
              stored |-> M.stored]

\* save (lines 34-37)
ManagerSave(M, now, retentionDays) ==
    LET P == PruneExpiredConversations(M, now, retentionDays)
    IN  [P EXCEPT !.stored = P.conversations]

\* load (lines 25-31); normalizeConversations keeps the ids and the stamps of
\* what save wrote and sorts
ManagerLoad(M, now, retentionDays) ==
    LET L == [M EXCEPT !.conversations = SortByUpdatedAt(M.stored)]
        P == PruneExpiredConversations(L, now, retentionDays)
    IN  IF Len(P.conversations) # Len(L.conversations)
        THEN ManagerSave(P, now, retentionDays) ELSE P

\* create (lines 67-81) with the id made for it
ManagerCreate(M, id, now, retentionDays) ==
    ManagerSave([M EXCEPT !.conversations =
                              <<[id |-> id, createdAt |-> now, updatedAt |-> now]>> \o @,
                          !.messages = [k \in (DOMAIN @) \cup {id} |->
                                            IF k = id THEN <<>> ELSE @[k]],
                          !.activeConversationId = id],
                now, retentionDays)

\* switchTo (lines 84-89)
ManagerSwitchTo(M, conversationId) ==
    IF conversationId \in ConvIdsOf(M.conversations)
    THEN [M EXCEPT !.activeConversationId = conversationId] ELSE M

\* delete (lines 92-99)
ManagerDelete(M, conversationId, now, retentionDays) ==
    LET Other(conv) == conv.id # conversationId
        kept == SelectSeq(M.conversations, Other)
    IN  ManagerSave([M EXCEPT !.conversations = kept,
                              !.messages = [k \in (DOMAIN @) \ {conversationId} |-> @[k]],
                              !.activeConversationId =
                                  IF @ = conversationId THEN FirstId(kept) ELSE @],
                    now, retentionDays)

\* addMessage (lines 102-114)
ManagerAddMessage(M, conversationId, message, now, retentionDays) ==
    LET M1 == [M EXCEPT !.messages =
                   [k \in (DOMAIN @) \cup {conversationId} |->
                       IF k # conversationId THEN @[k]
                       ELSE IF k \in DOMAIN @ THEN Append(@[k], message)
                       ELSE <<message>>]]
    IN  IF conversationId \in ConvIdsOf(M.conversations)
        THEN ManagerSave([M1 EXCEPT !.conversations =
                              [i \in DOMAIN @ |->
                                  IF @[i].id = conversationId
                                     /\ \A j \in 1..(i - 1) : @[j].id # conversationId
                                  THEN [@[i] EXCEPT !.updatedAt = now] ELSE @[i]]],
                         now, retentionDays)
        ELSE M1

\* updateTitle (lines 117-123)
ManagerUpdateTitle(M, conversationId, now, retentionDays) ==
    IF conversationId \in ConvIdsOf(M.conversations)
    THEN ManagerSave(M, now, retentionDays) ELSE M

\* clear (lines 228-233)
ManagerClear(M, now, retentionDays) ==
    ManagerSave([M EXCEPT !.conversations = <<>>, !.messages = NoMessages,
                          !.activeConversationId = NoId],
                now, retentionDays)

\* the manager as one value, and back
Manager ==
    [conversations |-> conversations, messages |-> messages,
     activeConversationId |-> activeConversationId, stored |-> storedConversations]

StoreManager(M) ==
    /\ conversations' = M.conversations
    /\ messages' = M.messages
    /\ activeConversationId' = M.activeConversationId
    /\ storedConversations' = M.stored

\* the manager built on an empty preference (lines 15-21), no turn yet
ManagerRest ==
    /\ conversations = <<>>
    /\ messages = NoMessages
    /\ activeConversationId = NoId
    /\ storedConversations = <<>>
    /\ nowDays = 0
    /\ created = 0
    /\ turnConversation = [t \in Turns |-> NoId]

\* the engine after construction; the gate and the other parts are at rest
Init ==
    /\ LifeInit
    /\ settings = SettingsChoices[1]
    /\ toolLog = <<>>
    /\ StreamRest
    /\ SessionRest
    /\ ClockRest
    /\ ManagerRest

NextTurn == CHOOSE t \in Turns : pc[t] = "idle" /\ \A u \in Turns : u < t => pc[u] # "idle"

\* ------------------------------------------------------------------------
\* The environment of the subprocesses (utils/env.ts lines 30-60, index.ts
\* lines 1650-1669).  Subprocess.call is given no environment option (lines
\* 717-723, 960-966), so a subprocess starts with the variables of the host
\* process.  No bash.exe exists on the machines followed and the variable
\* Git_for_claudecode is not set: ensureGitBashEnvironment returns null.
\* ------------------------------------------------------------------------
\* text.split(/\r?\n/)
EnvLines(text) ==
    LET lines == SplitOn(text, "\n", <<>>)
        cut(i) == IF i < Len(lines) /\ lines[i] # <<>> /\ lines[i][Len(lines[i])] = "\r"
                  THEN SubSeq(lines[i], 1, Len(lines[i]) - 1) ELSE lines[i]
    IN  [i \in 1..Len(lines) |-> cut(i)]

\* String.prototype.indexOf of one character, counted from 1; 0 = absent
RECURSIVE IndexOfChar(_, _, _)
IndexOfChar(s, c, i) ==
    IF i > Len(s) THEN 0 ELSE IF s[i] = c THEN i ELSE IndexOfChar(s, c, i + 1)

\* trimmed.replace(/^export\s+/, '')
StripExport(s) ==
    IF StartsWith(s, <<"e", "x", "p", "o", "r", "t">>) /\ Len(s) > 6 /\ IsSpace(s[7])
    THEN TrimStart(SubSeq(s, 7, Len(s))) ELSE s

\* lines 47-53: surrounding quotes of one kind are removed
Unquote(value) ==
    IF value # <<>> /\ \E q \in {"U+0022", "U+0027"} : Head(value) = q /\ value[Len(value)] = q
    THEN SubSeq(value, 2, Len(value) - 1) ELSE value

\* lines 35-57 on one line: <<>> or one <<key, value>> pair
ParseEnvLine(line) ==
    LET trimmed == Trim(line)
        clean == StripExport(trimmed)
        eqIdx == IndexOfChar(clean, "=", 1)
        key == Trim(SubSeq(clean, 1, eqIdx - 1))
        value == Unquote(Trim(SubSeq(clean, eqIdx + 1, Len(clean))))
    IN  IF trimmed = <<>> \/ Head(trimmed) = "#" THEN <<>>
        ELSE IF eqIdx <= 1 THEN <<>>
        ELSE IF key = <<>> THEN <<>>
        ELSE <<<<key, value>>>>

\* parseEnvironmentVariables: the pairs in the order of the lines; a key
\* written twice keeps its last value
RECURSIVE ParseEnvLines(_)
ParseEnvLines(lines) ==
    IF lines = <<>> THEN <<>> ELSE ParseEnvLine(Head(lines)) \o ParseEnvLines(Tail(lines))

ParseEnvironmentVariables(text) == IF text = <<>> THEN <<>> ELSE ParseEnvLines(EnvLines(text))

\* nsIEnvironment.set
EnvSet(envVars, key, value) == {p \in envVars : p[1] # key} \cup {<<key, value>>}

GitBashKey ==
    <<"C", "L", "A", "U", "D", "E", "_", "C", "O", "D", "E", "_", "G", "I", "T", "_",
      "B", "A", "S", "H", "_", "P", "A", "T", "H">>

\* the loop of lines 1662-1668
RECURSIVE EnvSetAll(_, _)
EnvSetAll(envVars, pairs) ==
    IF pairs = <<>> THEN envVars
    ELSE EnvSetAll(EnvSet(envVars, Head(pairs)[1], Head(pairs)[2]), Tail(pairs))

\* applyRuntimeEnvironment (lines 1650-1669) on the variables of the host
\* process; gitBashPath = <<>> for null
ApplyRuntimeEnvironment(envVars, cfg, gitBashPath) ==
    LET parsed == ParseEnvironmentVariables(cfg.environmentVariables)
        pairs == IF gitBashPath # <<>> /\ \A i \in 1..Len(parsed) : parsed[i][1] # GitBashKey
                 THEN Append(parsed, <<GitBashKey, gitBashPath>>) ELSE parsed
    IN  EnvSetAll(envVars, pairs)

\* lines 675 and 695 (940-941 of the title call) on the host of the engine
RuntimeEnvironmentApplied ==
    cliEnv' = [cliEnv EXCEPT !.vars = ApplyRuntimeEnvironment(@, settings, <<>>)]

\* the busy guard, lines 658-661
SendMessageBusy ==
    /\ isRunning
    /\ UNCHANGED vars

\* lines 663-717: flags, stream-start, arguments, executable resolution.
\* resolved = FALSE: loadSubprocessModule / resolveCliExecutablePath throws,
\* and catch and finally run before sendMessage first yields.
SendMessageCall(resolved) ==
    /\ ~isRunning
    /\ \E t \in Turns : pc[t] = "idle"
    /\ LET t == NextTurn IN
        IF resolved
        THEN /\ abortRequested' = FALSE
             /\ isRunning' = TRUE
             /\ cbLog' = [cbLog EXCEPT ![t] = Append(@, "start")]
             /\ pc' = [pc EXCEPT ![t] = "spawn"]
             /\ UNCHANGED <<currentProcess, endClean, hasText, streamReadError, readLoop>>
        ELSE Settle(t, "config", FALSE, Append(cbLog[t], "start"))
    /\ RuntimeEnvironmentApplied
    /\ UNCHANGED <<procSt, aborted>>
    /\ UNCHANGED <<gateVars, streamVars, sessionByConversation, args, titleCall, clockVars>>

\* sendMessage called by itself: the conversations are left alone
SendMessage(resolved) ==
    /\ SendMessageCall(resolved)
    /\ UNCHANGED managerVars

\* line 717 resolves; lines 725-732 run up to the stdin write
SpawnResolve(t) ==
    /\ pc[t] = "spawn"
    /\ procSt' = [procSt EXCEPT ![t] = "alive"]
    /\ currentProcess' = t
    /\ pc' = [pc EXCEPT ![t] = "write"]
    /\ UNCHANGED <<isRunning, abortRequested, hasText, streamReadError, readLoop, obsVars>>
    /\ UNCHANGED auxVars

\* line 717 rejects
SpawnReject(t) ==
    /\ pc[t] = "spawn"
    /\ Settle(t, "spawn", abortRequested, cbLog[t])
    /\ UNCHANGED <<procSt, aborted>>
    /\ UNCHANGED auxVars

\* lines 732-734 resolve; lines 740-827 start both read loops and the race
StdinWritten(t) ==
    /\ pc[t] = "write"
    /\ pc' = [pc EXCEPT ![t] = "stream"]
    /\ readLoop' = [readLoop EXCEPT ![t] = "on"]
    /\ UNCHANGED <<engineVars, procSt, hasText, streamReadError, obsVars>>
    /\ UNCHANGED auxVars

\* lines 736-738: the write or the close rejects
StdinFails(t) ==
    /\ pc[t] = "write"
    /\ Settle(t, "stdin", abortRequested, cbLog[t])
    /\ UNCHANGED <<procSt, aborted>>
    /\ UNCHANGED auxVars

\* the subprocess exits by itself
ProcExit(t, code) ==
    /\ procSt[t] = "alive"
    /\ procSt' = [procSt EXCEPT ![t] = code]
    /\ UNCHANGED <<engineVars, pc, hasText, streamReadError, readLoop, obsVars>>
    /\ UNCHANGED auxVars

\* readLoop, lines 771-797: one chunk is read and its lines are processed.
\* what = "text": a line appends text (stream callback);
\* what = "throw": a line makes handleStreamEvent throw, or readString rejects.
\* (A loop that reaches end of file reads no further chunk.)
LogStream(log) == IF log # <<>> /\ log[Len(log)] = "stream" THEN log ELSE Append(log, "stream")

StdoutChunk(t, what) ==
    /\ readLoop[t] = "on"
    /\ pc[t] # "done"
    /\ \/ /\ what = "text"
          /\ hasText' = [hasText EXCEPT ![t] = TRUE]
          /\ cbLog' = [cbLog EXCEPT ![t] = LogStream(@)]
          /\ UNCHANGED <<streamReadError, readLoop, procSt>>
       \/ /\ what = "throw"
          /\ readLoop' = [readLoop EXCEPT ![t] = "done"]
          /\ IF abortRequested
             THEN UNCHANGED <<streamReadError, procSt>>
             ELSE /\ streamReadError' = [streamReadError EXCEPT ![t] = TRUE]
                  /\ procSt' = Kill(procSt, t)
          /\ UNCHANGED <<hasText, cbLog>>
    /\ UNCHANGED <<engineVars, pc, aborted, endClean>>
    /\ UNCHANGED auxVars

\* lines 827-851: the race is won by proc.wait()
RaceExit(t) ==
    /\ pc[t] = "stream"
    /\ Exited(t)
    /\ pc' = [pc EXCEPT ![t] = "drain"]
    /\ UNCHANGED <<engineVars, procSt, hasText, streamReadError, readLoop, obsVars>>
    /\ UNCHANGED auxVars

\* lines 829-848: the race is won by the inactivity watchdog
RaceTimeout(t) ==
    /\ pc[t] = "stream"
    /\ procSt[t] = "alive"
    /\ procSt' = Kill(procSt, t)
    /\ Settle(t, "timeout", abortRequested, cbLog[t])
    /\ UNCHANGED <<aborted>>
    /\ UNCHANGED auxVars

\* lines 853-900: the drain wait is over (both loops ended or 1.2 s passed);
\* the unterminated last line is processed, then the outcome is decided.
\* tail = "none": buffer blank; "text": it appends text; "throw": it throws.
DrainDoneCall(t, tail) ==
    /\ pc[t] = "drain"
    /\ LET text == hasText[t] \/ tail = "text"
           log == IF tail = "text" THEN LogStream(cbLog[t]) ELSE cbLog[t]
           kind == IF tail = "throw" THEN "stream"
                   ELSE Outcome(streamReadError[t], abortRequested, procSt[t] = "exit0", text)
       IN Settle(t, kind, abortRequested, log)
    /\ UNCHANGED <<procSt, aborted>>
    /\ UNCHANGED <<gateVars, streamVars, sessionVars, clockVars>>

\* the same with no panel wired to the message callback
DrainDone(t, tail) ==
    /\ DrainDoneCall(t, tail)
    /\ UNCHANGED managerVars

\* ------------------------------------------------------------------------
\* abort (lines 1747-1758)
\* ------------------------------------------------------------------------
Abort ==
    /\ abortRequested' = TRUE
    /\ procSt' = IF currentProcess # 0 THEN Kill(procSt, currentProcess) ELSE procSt
    /\ currentProcess' = 0
    /\ isRunning' = FALSE
    /\ aborted' = [t \in Turns |-> aborted[t] \/ InFlight(t)]
    /\ UNCHANGED <<pc, hasText, streamReadError, readLoop, cbLog, endClean>>
    /\ UNCHANGED auxVars

Next ==
    \/ SendMessageBusy
    \/ \E resolved \in BOOLEAN : SendMessage(resolved)
    \/ \E t \in Turns : SpawnResolve(t)
    \/ \E t \in Turns : SpawnReject(t)
    \/ \E t \in Turns : StdinWritten(t)
    \/ \E t \in Turns : StdinFails(t)
    \/ \E t \in Turns, code \in {"exit0", "exit1"} : ProcExit(t, code)
    \/ \E t \in Turns, what \in {"text", "throw"} : StdoutChunk(t, what)
    \/ \E t \in Turns : RaceExit(t)
    \/ \E t \in Turns : RaceTimeout(t)
    \/ \E t \in Turns, tail \in {"none", "text", "throw"} : DrainDone(t, tail)
    \/ Abort

Spec == Init /\ [][Next]_vars

\* What the runtime guarantees of the awaits of sendMessage: the promise of
\* Subprocess.call and the promises of the stdin write and close settle;
\* proc.wait() resolves once the process has exited; a process that never
\* exits ends up silent for longer than the limit, and the interval timer of
\* line 835 then fires; the drain wait of line 853 is over after 1200 ms at
\* the latest. Nothing makes a process exit or a user abort.
Fairness ==
    \A t \in Turns :
        /\ WF_vars(SpawnResolve(t) \/ SpawnReject(t))
        /\ WF_vars(StdinWritten(t) \/ StdinFails(t))
        /\ WF_vars(RaceExit(t))
        /\ WF_vars(RaceTimeout(t))
        /\ WF_vars(\E tail \in {"none", "text", "throw"} : DrainDone(t, tail))

SpecLive == Spec /\ Fairness

\* ------------------------------------------------------------------------
\* The turn lifecycle on a given machine (SpecConfig): the executable is
\* resolved from the configured path, the PATH variable and the files.
\* ------------------------------------------------------------------------
InitConfig ==
    /\ LifeInit
    /\ settings = SettingsChoices[1]
    /\ toolLog = <<>>
    /\ StreamRest
    /\ sessionByConversation = [c \in Conversations |-> <<>>]
    /\ args = NoArgs
    /\ cliEnv \in RangeOf(CliEnvs)
    /\ titleCall = NoTitleCall
    /\ ClockRest
    /\ ManagerRest

\* sendMessage with line 713 followed
SendMessageResolved ==
    SendMessage(ResolveCliExecutablePath(GetCliPath(cliEnv.claudeCliPath),
                                         cliEnv.PATH, cliEnv.files) # <<>>)

NextConfig ==
    \/ SendMessageBusy
    \/ SendMessageResolved
    \/ \E t \in Turns : SpawnResolve(t)
    \/ \E t \in Turns : SpawnReject(t)
    \/ \E t \in Turns : StdinWritten(t)
    \/ \E t \in Turns : StdinFails(t)
    \/ \E t \in Turns, code \in {"exit0", "exit1"} : ProcExit(t, code)
    \/ \E t \in Turns, what \in {"text", "throw"} : StdoutChunk(t, what)
    \/ \E t \in Turns : RaceExit(t)
    \/ \E t \in Turns : RaceTimeout(t)
    \/ \E t \in Turns, tail \in {"none", "text", "throw"} : DrainDone(t, tail)
    \/ Abort

SpecConfig == InitConfig /\ [][NextConfig]_vars

\* ------------------------------------------------------------------------
\* The blocklist gate on its own (SpecGate)
\* ------------------------------------------------------------------------
InitGate ==
    /\ LifeInit
    /\ settings \in RangeOf(SettingsChoices)
    /\ toolLog = <<>>
    /\ StreamRest
    /\ SessionRest
    /\ ClockRest
    /\ ManagerRest

\* updateSettings (lines 580-582)
UpdateSettings(cfg) ==
    /\ settings' = cfg
    /\ UNCHANGED <<lifeVars, toolLog, streamVars, sessionVars, clockVars, managerVars>>

\* handleToolUseBlock (lines 1504-1518) on one block
HandleToolUse(block) ==
    /\ Len(toolLog) < MaxToolLog
    /\ toolLog' = Append(toolLog, HandleToolUseBlock(block, settings))
    /\ UNCHANGED <<lifeVars, settings, streamVars, sessionVars, clockVars, managerVars>>

NextGate ==
    \/ \E cfg \in RangeOf(SettingsChoices) : UpdateSettings(cfg)
    \/ \E name \in RangeOf(ToolNames), input \in RangeOf(ToolInputs), id \in ToolIds :
            HandleToolUse([name |-> name, input |-> input, id |-> id])

SpecGate == InitGate /\ [][NextGate]_vars

\* ------------------------------------------------------------------------
\* One turn's stream in detail (SpecStream): the turn of conversation "c1",
\* from the start of its read loop (line 822) on, under any of the settings.
\* ------------------------------------------------------------------------
StreamConversation == IF args.conversation = "" THEN "c1" ELSE args.conversation

BashRm == ToolUseBlock(ToolNames[1], ToolInputs[5], "t1")
BashLs == ToolUseBlock(ToolNames[1], ToolInputs[6], "t1")
ReadRm == ToolUseBlock(ToolNames[6], ToolInputs[5], "t1")

EvDelta == [NoEvent EXCEPT !.type = "content_block_delta", !.wrapped = TRUE, !.text = <<"a">>]
EvAssistantText == [NoEvent EXCEPT !.type = "assistant", !.content = <<TextBlock(<<"a">>)>>]
EvResult == [NoEvent EXCEPT !.type = "result", !.text = <<"a">>]
EvToolUseRm == [NoEvent EXCEPT !.type = "tool_use", !.block = BashRm]
EvToolUseLs == [NoEvent EXCEPT !.type = "tool_use", !.block = BashLs]
EvBlockStartRm == [NoEvent EXCEPT !.type = "content_block_start", !.wrapped = TRUE, !.block = BashRm]
EvAssistantTools == [NoEvent EXCEPT !.type = "assistant", !.content = <<ReadRm, BashRm>>]
EvError == [NoEvent EXCEPT !.type = "error", !.text = <<"e">>]
\* one tool use as --include-partial-messages prints it: the start of its
\* block with an input still empty, later the assistant message with the
\* whole input
EvBlockStartPending ==
    [NoEvent EXCEPT !.type = "content_block_start", !.wrapped = TRUE,
                    !.block = ToolUseBlock(ToolNames[1], ToolInputs[13], "t3")]
EvAssistantWhole ==
    [NoEvent EXCEPT !.type = "assistant",
                    !.content = <<ToolUseBlock(ToolNames[1], ToolInputs[5], "t3")>>]

StreamEvents == {EvDelta, EvAssistantText, EvResult, EvToolUseRm, EvToolUseLs,
                 EvBlockStartRm, EvAssistantTools, EvError, EvBlockStartPending,
                 EvAssistantWhole}

\* what one readString() may return
Chunks ==
    {<<Json(ev), NL>> : ev \in StreamEvents}
        \cup {<<Json(EvToolUseRm)>>, <<Json(EvDelta)>>, <<NL>>, <<NL, Json(EvError)>>,
              <<Plain(<<"x">>), NL>>, <<DataPrefix, SP, Json(EvDelta), NL>>}

\* no rule, plain rules, a regular expression rule
StreamSettings == {SettingsChoices[1], SettingsChoices[2], SettingsChoices[3]}

\* the ChatMessage of lines 892-898 of index.ts; id stands for messageId
\* (line 666, made once for the turn)
AssistantMessage(t) == [id |-> t, role |-> "assistant", isStreaming |-> FALSE]

\* the turn's locals as one value, and back
CurrentS ==
    [fullResponse |-> fullResponse, sawTextDelta |-> sawTextDelta,
     messageId |-> AssistantMessage(1).id, payloads |-> streamPayloads,
     sawStructuredEvent |-> sawStructuredEvent, toolLog |-> toolLog,
     session |-> sessionByConversation[StreamConversation],
     thrown |-> NoThrow, streamed |-> FALSE,
     toolResults |-> toolResults, errorSeen |-> errorSeen,
     deltaText |-> deltaText, sawReplyText |-> sawReplyText, otherText |-> otherText]

StoreS(S) ==
    /\ fullResponse' = S.fullResponse
    /\ streamPayloads' = S.payloads
    /\ sawTextDelta' = S.sawTextDelta
    /\ sawStructuredEvent' = S.sawStructuredEvent
    /\ toolLog' = S.toolLog
    /\ toolResults' = S.toolResults
    /\ errorSeen' = IF pc[1] # "done" THEN S.errorSeen ELSE errorSeen
    /\ sessionByConversation' = [sessionByConversation EXCEPT ![StreamConversation] = S.session]
    /\ UNCHANGED <<args, cliEnv, titleCall>>
    /\ IF pc[1] # "done"
       THEN /\ deltaText' = S.deltaText
            /\ sawReplyText' = S.sawReplyText
            /\ otherText' = S.otherText
            /\ toolsInFlight' = Len(S.toolLog)
       ELSE UNCHANGED <<deltaText, sawReplyText, otherText, toolsInFlight>>

\* the read loop of turn 1 is running, abort() either not called or called
\* while the spawn was pending (the process then stays alive)
TurnStreaming ==
    /\ \E early \in BOOLEAN :
        /\ isRunning = ~early
        /\ abortRequested = early
        /\ aborted = [t \in Turns |-> t = 1 /\ early]
    /\ currentProcess = 1
    /\ pc = [t \in Turns |-> IF t = 1 THEN "stream" ELSE "idle"]
    /\ procSt = [t \in Turns |-> IF t = 1 THEN "alive" ELSE "none"]
    /\ hasText = [t \in Turns |-> FALSE]
    /\ streamReadError = [t \in Turns |-> FALSE]
    /\ readLoop = [t \in Turns |-> IF t = 1 THEN "on" ELSE "off"]
    /\ cbLog = [t \in Turns |-> IF t = 1 THEN <<"start">> ELSE <<>>]
    /\ endClean = [t \in Turns |-> TRUE]
    /\ toolLog = <<>>
    /\ buffer = <<>>
    /\ fullResponse = <<>>
    /\ streamPayloads = <<>>
    /\ sawTextDelta = FALSE
    /\ sawStructuredEvent = FALSE
    /\ readError = NoThrow
    /\ streamOpen = TRUE
    /\ chunksRead = 0
    /\ lastError = NoThrow
    /\ messageContent = <<>>
    /\ deltaText = <<>>
    /\ sawReplyText = FALSE
    /\ otherText = FALSE
    /\ toolsInFlight = 0
    /\ toolResults = <<>>
    /\ stderrOutput = <<>>
    /\ errorSeen = NoErrorSeen
    /\ stdoutRead = <<>>
    /\ SessionRest
    /\ ClockRest
    /\ ManagerRest

InitStream ==
    /\ TurnStreaming
    /\ settings \in StreamSettings

\* catch block of the read loop (lines 786-796)
ReadLoopCatch(thrown) ==
    /\ streamOpen' = FALSE
    /\ IF abortRequested
       THEN UNCHANGED <<readError, procSt>>
       ELSE /\ readError' = thrown
            /\ procSt' = Kill(procSt, 1)

\* lines 774-784: one chunk is read, split, and its complete lines processed
ChunkProcessed(S) ==
    /\ StoreS(S)
    /\ cbLog' = [cbLog EXCEPT ![1] = IF S.streamed THEN LogStream(@) ELSE @]
    /\ IF S.thrown.kind = "none"
       THEN UNCHANGED <<streamOpen, readError, procSt>>
       ELSE ReadLoopCatch(S.thrown)

ChunkSplit(pieces) ==
    /\ buffer' = pieces[Len(pieces)]
    /\ ChunkProcessed(ProcessLines(CurrentS, SubSeq(pieces, 1, Len(pieces) - 1), settings))

ChunkRead(data) ==
    /\ streamOpen
    /\ chunksRead < MaxChunks
    /\ ChunkSplit(SplitTokens(buffer \o data))
    /\ chunksRead' = chunksRead + 1
    /\ UNCHANGED <<engineVars, pc, hasText, streamReadError, readLoop, aborted, endClean,
                   settings, lastError, messageContent, stderrOutput, clockVars, managerVars>>

StreamChunk(data) ==
    /\ ChunkRead(data)
    /\ UNCHANGED stdoutRead

\* line 774 rejects
StreamReadFails ==
    /\ streamOpen
    /\ ReadLoopCatch([kind |-> "io", rule |-> <<>>])
    /\ UNCHANGED <<engineVars, pc, hasText, streamReadError, readLoop, obsVars, gateVars,
                   buffer, fullResponse, streamPayloads, sawTextDelta, sawStructuredEvent, chunksRead,
                   lastError, messageContent, deltaText, sawReplyText, otherText,
                   toolsInFlight, toolResults, stderrOutput, errorSeen, stdoutRead,
                   sessionVars, clockVars, managerVars>>

\* line 775: end of file
StreamEof ==
    /\ streamOpen
    /\ streamOpen' = FALSE
    /\ UNCHANGED <<lifeVars, gateVars, buffer, fullResponse, streamPayloads, sawTextDelta, sawStructuredEvent,
                   readError, chunksRead, lastError, messageContent, deltaText, sawReplyText,
                   otherText, toolsInFlight, toolResults, stderrOutput, errorSeen,
                   stdoutRead, sessionVars, clockVars, managerVars>>

\* catch and finally (lines 901-914) of the turn followed in detail
StreamSettle(thrown, log, text) ==
    LET outcome == Catch(thrown.kind, abortRequested)
        isErr == outcome \notin {"message", "silent"}
        log2 == IF outcome = "message" THEN Append(log, "message")
                ELSE IF isErr THEN Append(log, "error")
                ELSE log
    IN  /\ lastError' = IF isErr THEN thrown ELSE lastError
        /\ messageContent' = IF outcome = "message" THEN text ELSE messageContent
        /\ Finally(1, log2)

\* lines 840-848: the race was won by the watchdog
TimeoutSettle ==
    /\ procSt' = Kill(procSt, 1)
    /\ StreamSettle([kind |-> "timeout", rule |-> <<>>], cbLog[1], fullResponse)
    /\ UNCHANGED <<hasText, streamReadError, readLoop, aborted, gateVars, sessionVars,
                   buffer, fullResponse, streamPayloads, sawTextDelta, sawStructuredEvent, readError,
                   streamOpen, chunksRead, deltaText, sawReplyText, otherText, toolsInFlight,
                   toolResults, stderrOutput, errorSeen, stdoutRead>>

\* lines 829-848: the watchdog wins the race (its clock is not followed here)
StreamTimeout ==
    /\ pc[1] = "stream"
    /\ procSt[1] = "alive"
    /\ TimeoutSettle
    /\ UNCHANGED <<clockVars, managerVars>>

\* lines 853-900: the drain wait is over; the unterminated last line is
\* processed (line 857 throws straight into the catch block), then the
\* outcome is decided
\* every empty reply is reported as one without structured output
EmptyReplyHintFixed(sawEvent) == <<"No structured stream output was received.">>

\* streamHint (lines 881-883); the details of line 880 follow it
EmptyReplyHint(sawEvent) ==
    IF sawEvent THEN <<"Received stream events but no assistant text.">>
    ELSE <<"No structured stream output was received.">>

TryResult(S, kind) ==
    IF S.thrown.kind # "none" THEN S.thrown
    ELSE IF kind = "stream" THEN readError
    ELSE IF kind = "exit"
    THEN [kind |-> kind, rule |-> FormatCliExitError(ExitCode(procSt[1]), Trim(stderrOutput))]
    ELSE IF kind = "empty"
    THEN [kind |-> kind, rule |-> EmptyReplyHint(S.sawStructuredEvent) \o Trim(stderrOutput)]
    ELSE [kind |-> kind, rule |-> <<>>]

LastLineProcessed(S) ==
    /\ StoreS(S)
    /\ StreamSettle(TryResult(S, Outcome(readError.kind # "none", abortRequested,
                                         procSt[1] = "exit0", Trim(S.fullResponse) # <<>>)),
                    IF S.streamed THEN LogStream(cbLog[1]) ELSE cbLog[1],
                    S.fullResponse)

StreamDrainDone ==
    /\ pc[1] = "drain"
    /\ LastLineProcessed(IF TrimTokens(buffer) # <<>>
                         THEN ProcessOutputLine(CurrentS, buffer, settings)
                         ELSE CurrentS)
    /\ UNCHANGED <<procSt, hasText, streamReadError, readLoop, aborted, settings,
                   buffer, readError, streamOpen, chunksRead, stderrOutput, stdoutRead,
                   clockVars, managerVars>>

NextStream ==
    \/ \E data \in Chunks : StreamChunk(data)
    \/ StreamReadFails
    \/ StreamEof
    \/ \E code \in {"exit0", "exit1"} : ProcExit(1, code)
    \/ RaceExit(1)
    \/ StreamTimeout
    \/ StreamDrainDone
    \/ Abort

SpecStream == InitStream /\ [][NextStream]_vars

\* ------------------------------------------------------------------------
\* The same turn on a stream of replies, tool results and errors
\* (SpecEvents); what was read from stdout is kept for the observer.
\* ------------------------------------------------------------------------
EvDeltaB == [EvDelta EXCEPT !.text = <<"b">>]
EvToolResult == [NoEvent EXCEPT !.type = "tool_result", !.block = ToolResultBlock("t1")]
EvUser ==
    [NoEvent EXCEPT !.type = "user",
                    !.content = <<ToolResultBlock("t2"), TextBlock(<<"u">>), ToolResultBlock("t1")>>]
EvAssistantMixed ==
    [NoEvent EXCEPT !.type = "assistant",
                    !.content = <<BashLs, ToolResultBlock("t1"), TextBlock(<<"b">>)>>]

ReplyChunks ==
    {<<Json(EvDelta), NL>>, <<Json(EvDeltaB), NL>>, <<Json(EvDelta)>>, <<NL>>,
     <<Json(EvDelta), NL, Json(EvDeltaB), NL>>,
     <<Json(EvError), NL, Json(EvDeltaB)>>,
     <<Json(EvToolResult), NL>>, <<Json(EvToolResult)>>, <<Json(EvUser), NL>>,
     <<Json(EvToolUseLs), NL, Json(EvToolResult), NL>>,
     <<Json(EvAssistantMixed), NL>>,
     <<Json(NoEvent), NL>>, <<Plain(<<"x">>), NL>>, <<SP, NL>>,
     <<Json([EvDelta EXCEPT !.text = <<" ">>]), NL>>,
     <<Json([NoEvent EXCEPT !.type = "system", !.session_id = SessionTokens[1]]), NL>>,
     <<Json([EvDeltaB EXCEPT !.wrapper_session_id = SessionTokens[2]]), NL>>}

InitEvents ==
    /\ TurnStreaming
    /\ settings = SettingsChoices[2]

StdoutChunkRead(data) ==
    /\ ChunkRead(data)
    /\ stdoutRead' = IF pc[1] # "done" THEN stdoutRead \o data ELSE stdoutRead

\* readStderrLoop (lines 799-820); what is read after stream-end is not used
StderrChunk(data) ==
    /\ pc[1] \in {"stream", "drain"}
    /\ Count(stderrOutput, "\n") < MaxStderrLines
    /\ stderrOutput' = stderrOutput \o data
    /\ UNCHANGED <<lifeVars, gateVars, buffer, fullResponse, streamPayloads, sawTextDelta, sawStructuredEvent,
                   readError, streamOpen, chunksRead, lastError, messageContent, deltaText,
                   sawReplyText, otherText, toolsInFlight, toolResults, errorSeen,
                   stdoutRead, sessionVars, clockVars, managerVars>>

NextEvents ==
    \/ StderrChunk(<<"b", "o", "o", "m", "\n">>)
    \/ \E data \in ReplyChunks : StdoutChunkRead(data)
    \/ StreamReadFails
    \/ StreamEof
    \/ \E code \in {"exit0", "exit1"} : ProcExit(1, code)
    \/ RaceExit(1)
    \/ StreamTimeout
    \/ StreamDrainDone
    \/ Abort

SpecEvents == InitEvents /\ [][NextEvents]_vars

\* ------------------------------------------------------------------------
\* The same turn on a stdout text cut into chunks at any place (SpecChunks)
\* ------------------------------------------------------------------------
\* what the subprocess prints in all: events and a last line without
\* newline; text lines, one of two pieces, and an event between blanks; a
\* data: prefix, an empty line and a newline at the end; an error event and
\* a last line without newline; a reply without deltas, its text in the
\* assistant event and again in the result event
ReplyTwice == <<Json(EvAssistantText), NL, Json(EvResult), NL>>

Outputs ==
    {ReplyTwice,
     <<Json(EvDelta), NL, Json(EvToolUseLs), NL, Json(EvToolResult), NL, Json(EvDeltaB)>>,
     <<Plain(<<"x">>), Plain(<<"y">>), NL, SP, Json(EvAssistantText), SP, NL, Plain(<<"z">>)>>,
     <<DataPrefix, SP, Json(EvDelta), NL, NL, Json(EvResult), NL>>,
     <<Json(EvError), NL, Json(EvDeltaB)>>}

IsPrefix(s, t) == Len(s) <= Len(t) /\ SubSeq(t, 1, Len(s)) = s

\* line 774: the next piece of the output, of any length
OutputChunk(data) ==
    /\ pc[1] # "done"
    /\ data # <<>>
    /\ \E out \in Outputs : IsPrefix(stdoutRead \o data, out)
    /\ StdoutChunkRead(data)

NextChunks ==
    \/ \E out \in Outputs : \E i, j \in 1..Len(out) : OutputChunk(SubSeq(out, i, j))
    \/ StreamEof
    \/ \E code \in {"exit0", "exit1"} : ProcExit(1, code)
    \/ RaceExit(1)
    \/ StreamDrainDone
    \/ Abort

SpecChunks == InitEvents /\ [][NextChunks]_vars

\* ------------------------------------------------------------------------
\* The same turn with the wait of line 853 on the clock (SpecDrain)
\* ------------------------------------------------------------------------
\* the promise alone, without the timer of line 1696
WaitForPromiseOnly(settled, waitedMs, timeoutMs) == settled

\* waitForPromiseWithTimeout (lines 1693-1698) has resolved: the promise has
\* settled, either way, or setTimeout has fired
WaitForPromiseWithTimeout(settled, waitedMs, timeoutMs) ==
    settled \/ waitedMs >= timeoutMs

\* time passes while the wait of line 853 has not resolved; the clock is not
\* followed further than a step over the grace period
DrainTick ==
    /\ pc[1] = "drain"
    /\ ~WaitForPromiseWithTimeout(FALSE, drainWaitMs, DrainGraceMs)
    /\ drainWaitMs <= DrainGraceMs
    /\ drainWaitMs' = drainWaitMs + DrainTickMs
    /\ UNCHANGED <<lifeVars, gateVars, streamVars, sessionVars, managerVars,
                   idleMs, sincePollMs, timedOut, elapsedMs, overLimit, steady>>

\* lines 853-900: Promise.all of the two read loops has settled (the stdout
\* loop has ended and so has the stderr loop, whose end is not followed) or
\* the timer has fired; then the turn is decided
TimedDrainDone ==
    /\ \E settled \in (IF streamOpen THEN {FALSE} ELSE BOOLEAN) :
          WaitForPromiseWithTimeout(settled, drainWaitMs, DrainGraceMs)
    /\ StreamDrainDone

NextDrain ==
    \/ StderrChunk(<<"b", "o", "o", "m", "\n">>)
    \/ \E data \in ReplyChunks : StdoutChunkRead(data)
    \/ StreamReadFails
    \/ StreamEof
    \/ \E code \in {"exit0", "exit1"} : ProcExit(1, code)
    \/ RaceExit(1)
    \/ StreamTimeout
    \/ DrainTick
    \/ TimedDrainDone
    \/ Abort

SpecDrain == InitEvents /\ [][NextDrain]_vars

\* ------------------------------------------------------------------------
\* The same turn with its stderr followed (SpecExit): the stderr read loop
\* collects lines, the process ends with code 0, 1 or -9.
\* ------------------------------------------------------------------------
\* what one proc.stderr.readString() may return
StderrChunks == {
    \* Error: not authenticated\n
    <<"E", "r", "r", "o", "r", ":", " ", "n", "o", "t", " ", "a", "u", "t", "h", "e", "n", "t", "i", "c", "a", "t", "e", "d", "\n">>,
    \* Requires Git-Bash\n
    <<"R", "e", "q", "u", "i", "r", "e", "s", " ", "G", "i", "t", "-", "B", "a", "s", "h", "\n">>,
    \* unknown option --max-turns\n
    <<"u", "n", "k", "n", "o", "w", "n", " ", "o", "p", "t", "i", "o", "n", " ", "-", "-", "m", "a", "x", "-", "t", "u", "r", "n", "s", "\n">>,
    \* unknown option --thinking-budget\n
    <<"u", "n", "k", "n", "o", "w", "n", " ", "o", "p", "t", "i", "o", "n", " ", "-", "-", "t", "h", "i", "n", "k", "i", "n", "g", "-", "b", "u", "d", "g", "e", "t", "\n">>,
    \* session id 1\n
    <<"s", "e", "s", "s", "i", "o", "n", " ", "i", "d", " ", "1", "\n">>,
    \* is already in use\n
    <<"i", "s", " ", "a", "l", "r", "e", "a", "d", "y", " ", "i", "n", " ", "u", "s", "e", "\n">>,
    \* boom\n
    <<"b", "o", "o", "m", "\n">>,
    \*  \n
    <<" ", "\n">>,
    \* try claude auth\n
    <<"t", "r", "y", " ", "c", "l", "a", "u", "d", "e", " ", "a", "u", "t", "h", "\n">> }

NextExit ==
    \/ StreamChunk(<<Json(EvDelta), NL>>)
    \/ \E data \in StderrChunks : StderrChunk(data)
    \/ StreamReadFails
    \/ StreamEof
    \/ \E code \in {"exit0", "exit1", "killed"} : ProcExit(1, code)
    \/ RaceExit(1)
    \/ StreamTimeout
    \/ StreamDrainDone
    \/ Abort

SpecExit == InitEvents /\ [][NextExit]_vars

\* ------------------------------------------------------------------------
\* generateConversationTitle (lines 917-1022) beside the turns (SpecTitle)
\* ------------------------------------------------------------------------
\* extractTextFromOneShotEvent (lines 1024-1064) on T = the locals of the
\* call.  The content of an assistant event is an array, for which
\* extractTextValue returns null (lines 1257-1289 look at its fields); a
\* result event after a text delta falls through to the fallback of line
\* 1060, which finds its result text.
ExtractTextFromOneShotEvent(T, ev) ==
    IF ev.type = "content_block_delta" /\ ev.text # <<>>
    THEN [T EXCEPT !.sawTextDelta = TRUE, !.fullResponse = @ \o ev.text]
    ELSE IF ev.type = "assistant" THEN T
    ELSE IF ev.type = "result" /\ ~T.sawTextDelta
    THEN [T EXCEPT !.fullResponse = @ \o ev.text]
    ELSE [T EXCEPT !.fullResponse = @ \o ExtractTextValue(ev)]

\* lines 987-997: one complete line of stdout
OneShotLine(T, normalized) ==
    IF normalized = <<>> THEN T
    ELSE IF Len(normalized) = 1 /\ normalized[1].k = "json"
    THEN ExtractTextFromOneShotEvent(T, normalized[1].ev)
    ELSE [T EXCEPT !.fullResponse = @ \o Render(normalized) \o <<"\n">>]

RECURSIVE OneShotLines(_, _)
OneShotLines(T, lines) ==
    IF lines = <<>> THEN T
    ELSE OneShotLines(OneShotLine(T, NormalizeOutputLine(Head(lines))), Tail(lines))

\* lines 1001-1007: the unterminated rest, trimmed but not normalized
OneShotRest(T, rest) ==
    IF rest = <<>> THEN T
    ELSE IF Len(rest) = 1 /\ rest[1].k = "json"
    THEN ExtractTextFromOneShotEvent(T, rest[1].ev)
    ELSE [T EXCEPT !.fullResponse = @ \o Render(rest)]

\* normalizeConversationTitle (lines 1066-1082)
RECURSIVE FirstNonBlankLine(_)
FirstNonBlankLine(lines) ==
    IF lines = <<>> THEN <<>>
    ELSE IF Trim(Head(lines)) # <<>> THEN Trim(Head(lines))
    ELSE FirstNonBlankLine(Tail(lines))

\* the straight quotes, the backquote and the four curly quotes (written by
\* their code points)
QuoteChars == {"U+0022", "U+0027", "U+0060", "U+201C", "U+201D", "U+2018", "U+2019"}

RECURSIVE StripQuotes(_)
StripQuotes(s) ==
    IF s # <<>> /\ Head(s) \in QuoteChars THEN StripQuotes(Tail(s))
    ELSE IF s # <<>> /\ s[Len(s)] \in QuoteChars THEN StripQuotes(SubSeq(s, 1, Len(s) - 1))
    ELSE s

\* /^(title|U+6807 U+9898)\s*[:U+FF1A-]\s*/i
StripTitleLabel(s) ==
    LET word == IF StartsWith(ToLowerCase(s), <<"t", "i", "t", "l", "e">>) THEN 5
                ELSE IF StartsWith(s, <<"U+6807", "U+9898">>) THEN 2
                ELSE 0
        rest == TrimStart(SubSeq(s, word + 1, Len(s)))
    IN  IF word > 0 /\ rest # <<>> /\ Head(rest) \in {":", "U+FF1A", "-"}
        THEN TrimStart(Tail(rest))
        ELSE s

\* replace(/\s+/g, one blank)
RECURSIVE CollapseSpaces(_)
CollapseSpaces(s) ==
    IF s = <<>> THEN <<>>
    ELSE IF IsSpace(Head(s)) THEN <<" ">> \o CollapseSpaces(TrimStart(s))
    ELSE <<Head(s)>> \o CollapseSpaces(Tail(s))

NormalizeConversationTitle(raw) ==
    LET cleaned == Trim(CollapseSpaces(StripTitleLabel(StripQuotes(
                       FirstNonBlankLine(SplitLines(NormalizeNewlines(raw)))))))
    IN  SubSeq(cleaned, 1, IF Len(cleaned) < 48 THEN Len(cleaned) ELSE 48)

\* what the rest of the engine sees of a step of the call
TitleFrame ==
    UNCHANGED <<lifeVars, gateVars, streamVars, clockVars, managerVars, sessionByConversation, args, cliEnv>>

\* return of the call with a value
TitleReturns(value) == titleCall' = [titleCall EXCEPT !.pc = "returned", !.value = value]

\* the catch block would let the exception out
TitleCatchRethrows == titleCall' = [titleCall EXCEPT !.pc = "returned", !.threw = TRUE]

\* the catch block (lines 1018-1021)
TitleCatch == TitleReturns(<<>>)

\* appendPermissionModeArgs (lines 1340-1355)
AppendPermissionModeArgs(argv, cfg) ==
    LET mode == IF cfg.permissionMode = "" THEN "yolo" ELSE cfg.permissionMode
    IN IF mode = "plan" THEN argv \o <<"--permission-mode", "plan">>
       ELSE IF mode = "normal" THEN argv \o <<"--permission-mode", "acceptEdits">>
       ELSE argv \o <<"--permission-mode", "bypassPermissions",
                      "--dangerously-skip-permissions">>

\* getModelId (lines 607-610); the model names have no blanks around them
GetModelId(cfg) == IF cfg.model = "" THEN "auto" ELSE cfg.model

\* the argument list of a turn's CLI given to the title call
TitleArgsOfTurn(cfg, stored) ==
    <<"--print", "--verbose", "--output-format", "stream-json", "--input-format", "text",
      "--include-partial-messages">>
    \o (IF GetModelId(cfg) # "auto" THEN <<"--model", GetModelId(cfg)>> ELSE <<>>)
    \o (IF \E c \in Conversations : ResumeSessionId(stored[c]) # <<>>
        THEN <<"--resume", "(session id)">> ELSE <<>>)
    \o <<"--setting-sources", "user,project", "--system-prompt", "(title prompt)">>
    \o AppendPermissionModeArgs(<<>>, cfg)

\* lines 943-958: the argument list of the title call; stored = what the
\* session map holds, which these lines do not read
TitleArgs(cfg, stored) ==
    <<"--print", "--verbose", "--output-format", "stream-json", "--input-format", "text",
      "--include-partial-messages", "--setting-sources", "user,project",
      "--permission-mode", "plan">>
    \o (IF GetModelId(cfg) # "auto" THEN <<"--model", GetModelId(cfg)>> ELSE <<>>)
    \o <<"--system-prompt", "(title prompt)">>

\* lines 917-958: up to the spawn; loads = the Subprocess module can be
\* imported
GenerateConversationTitle(userMessage, assistantMessage, loads) ==
    /\ titleCall.pc = "idle"
    /\ IF Trim(userMessage) = <<>> \/ Trim(assistantMessage) = <<>>
       THEN TitleReturns(<<>>)
       ELSE IF \/ ~loads
               \/ ResolveCliExecutablePath(GetCliPath(cliEnv.claudeCliPath),
                                           cliEnv.PATH, cliEnv.files) = <<>>
       THEN TitleCatch
       ELSE titleCall' = [titleCall EXCEPT !.pc = "spawn",
                                           !.argv = TitleArgs(settings, sessionByConversation)]
    /\ IF /\ Trim(userMessage) # <<>> /\ Trim(assistantMessage) # <<>> /\ loads
          /\ ResolveCliExecutablePath(GetCliPath(cliEnv.claudeCliPath),
                                      cliEnv.PATH, cliEnv.files) # <<>>
       THEN RuntimeEnvironmentApplied ELSE UNCHANGED cliEnv
    /\ UNCHANGED <<lifeVars, gateVars, streamVars, clockVars, managerVars, sessionByConversation, args>>

\* Subprocess.call settles (lines 960-968): with a stdin pipe, without one,
\* or rejected
TitleSpawnSettles(how) ==
    /\ titleCall.pc = "spawn"
    /\ CASE how = "pipe" -> titleCall' = [titleCall EXCEPT !.pc = "write", !.proc = "alive"]
         [] how = "nostdin" ->
                titleCall' = [titleCall EXCEPT !.pc = "returned", !.proc = "alive"]
         [] OTHER -> TitleCatch
    /\ TitleFrame

\* proc.stdin.write and close settle (lines 970-971)
TitleStdinSettles(ok) ==
    /\ titleCall.pc = "write"
    /\ IF ok THEN titleCall' = [titleCall EXCEPT !.pc = "read"] ELSE TitleCatch
    /\ TitleFrame

\* the process of the call ends
TitleProcExit(code) ==
    /\ titleCall.proc = "alive"
    /\ titleCall' = [titleCall EXCEPT !.proc = code]
    /\ TitleFrame

\* what one proc.stdout.readString() of the call may return
TitleChunks ==
    {<<Json(EvDelta), NL>>, <<Json([EvResult EXCEPT !.session_id = SessionTokens[1]])>>,
     <<Plain(<<"U+0022", "T", "i", "t", "l", "e", " ", ":", " ", "a", "U+0022">>), NL>>,
     <<SP, Plain(<<"U+0027", "U+0027">>), NL>>}

\* one round of the read loop (lines 981-999)
TitleRead(data) ==
    /\ titleCall.pc = "read"
    /\ titleCall.chunks < MaxChunks
    /\ LET lines == SplitTokens(titleCall.buffer \o data)
           T == OneShotLines(titleCall, SubSeq(lines, 1, Len(lines) - 1))
       IN  titleCall' = [T EXCEPT !.buffer = lines[Len(lines)], !.chunks = @ + 1]
    /\ TitleFrame

\* readString returns nothing (line 983), then lines 1001-1007
TitleReadEof ==
    /\ titleCall.pc = "read"
    /\ titleCall' = [OneShotRest(titleCall, TrimTokens(titleCall.buffer)) EXCEPT !.pc = "wait"]
    /\ TitleFrame

\* readString throws
TitleReadFails ==
    /\ titleCall.pc = "read"
    /\ TitleCatch
    /\ TitleFrame

\* proc.wait() resolves (lines 1010-1017)
TitleWaitResolves ==
    /\ titleCall.pc = "wait"
    /\ titleCall.proc \in {"exit0", "exit1"}
    /\ IF titleCall.proc # "exit0" THEN TitleReturns(<<>>)
       ELSE TitleReturns(NormalizeConversationTitle(titleCall.fullResponse))
    /\ TitleFrame

InitTitle ==
    /\ LifeInit
    /\ settings = SettingsChoices[1]
    /\ toolLog = <<>>
    /\ StreamRest
    /\ sessionByConversation = [c \in Conversations |-> <<>>]
    /\ args = NoArgs
    /\ cliEnv \in {CliEnvs[1], CliEnvs[2]}
    /\ titleCall = NoTitleCall
    /\ ClockRest
    /\ ManagerRest

\* the call beside turns that run to their end or are aborted
NextTitle ==
    \/ SendMessageBusy
    \/ SendMessageResolved
    \/ \E t \in Turns : SpawnResolve(t)
    \/ \E t \in Turns : StdinWritten(t)
    \/ \E t \in Turns, code \in {"exit0", "exit1"} : ProcExit(t, code)
    \/ \E t \in Turns : RaceExit(t)
    \/ \E t \in Turns : DrainDone(t, "text")
    \/ Abort
    \/ \E u, a \in {<<>>, <<" ">>, <<"a">>}, loads \in BOOLEAN : GenerateConversationTitle(u, a, loads)
    \/ \E how \in {"pipe", "nostdin", "reject"} : TitleSpawnSettles(how)
    \/ \E ok \in BOOLEAN : TitleStdinSettles(ok)
    \/ \E code \in {"exit0", "exit1"} : TitleProcExit(code)
    \/ \E data \in TitleChunks : TitleRead(data)
    \/ TitleReadEof
    \/ TitleReadFails
    \/ TitleWaitResolves

SpecTitle == InitTitle /\ [][NextTitle]_vars

\* the call by itself, and what the runtime guarantees of its awaits
\* (SpecTitleLive): the promise of Subprocess.call and the promises of the
\* stdin write and close settle, and proc.wait() resolves once the process
\* has exited, as does the read of the stdout of a process that has exited.
\* Nothing makes the process print, close its stdout or exit:
\* the readString of line 983 stays pending for as long as the process is
\* silent, and a process that fills the stderr pipe, which the call opens
\* (line 965) and never reads, is held in its write for good.
NextTitleCall ==
    \/ \E u, a \in {<<>>, <<"a">>}, loads \in BOOLEAN : GenerateConversationTitle(u, a, loads)
    \/ \E how \in {"pipe", "nostdin", "reject"} : TitleSpawnSettles(how)
    \/ \E ok \in BOOLEAN : TitleStdinSettles(ok)
    \/ \E code \in {"exit0", "exit1"} : TitleProcExit(code)
    \/ \E data \in TitleChunks : TitleRead(data)
    \/ TitleReadEof
    \/ TitleReadFails
    \/ TitleWaitResolves

TitleFairness ==
    /\ WF_vars(\E how \in {"pipe", "nostdin", "reject"} : TitleSpawnSettles(how))
    /\ WF_vars(\E ok \in BOOLEAN : TitleStdinSettles(ok))
    /\ WF_vars(titleCall.proc # "alive" /\ (TitleReadEof \/ TitleReadFails))
    /\ WF_vars(TitleWaitResolves)

SpecTitleLive == InitTitle /\ [][NextTitleCall]_vars /\ TitleFairness

\* ------------------------------------------------------------------------
\* The inactivity watchdog (SpecWatchdog): the race of lines 826-848 of one
\* turn with the clock followed in steps of TickMs.  Timers fire on time.
\* ------------------------------------------------------------------------
InitWatchdog ==
    /\ TurnStreaming
    /\ settings = SettingsChoices[1]

Racing == pc[1] = "stream" /\ procSt[1] = "alive"

WatchdogExpiredAlways(idle) == idle >= 0

\* line 831
WatchdogExpired(idle) == idle > InactivityLimitMs

\* the next step of the clock: TickMs, or what is left until the poll
StepMs == IF sincePollMs + TickMs > PollIntervalMs THEN PollIntervalMs - sincePollMs ELSE TickMs

\* time passes while the race is on and no poll is due
Tick ==
    /\ Racing
    /\ sincePollMs < PollIntervalMs
    /\ idleMs' = idleMs + StepMs
    /\ sincePollMs' = sincePollMs + StepMs
    /\ elapsedMs' = IF elapsedMs + StepMs > (InactivityLimitMs + TickMs) THEN (InactivityLimitMs + TickMs) ELSE elapsedMs + StepMs
    /\ overLimit' = (overLimit \/ idleMs' > InactivityLimitMs)
    /\ steady' = (steady /\ 2 * idleMs' <= InactivityLimitMs)
    /\ UNCHANGED <<lifeVars, gateVars, streamVars, sessionVars, managerVars, timedOut, drainWaitMs>>

\* lines 777 and 804: a stdout or stderr chunk arrives (its content is not
\* followed here)
Activity ==
    /\ Racing
    /\ idleMs > 0
    /\ idleMs' = 0
    /\ UNCHANGED <<lifeVars, gateVars, streamVars, sessionVars, managerVars,
                   sincePollMs, timedOut, elapsedMs, overLimit, steady, drainWaitMs>>

\* lines 830-835: the interval timer fires
WatchdogPoll ==
    /\ Racing
    /\ sincePollMs >= PollIntervalMs
    /\ IF WatchdogExpired(idleMs)
       THEN /\ timedOut' = TRUE
            /\ TimeoutSettle
            /\ UNCHANGED <<managerVars, idleMs, sincePollMs, elapsedMs, overLimit, steady, drainWaitMs>>
       ELSE /\ sincePollMs' = 0
            /\ UNCHANGED <<lifeVars, gateVars, streamVars, sessionVars, managerVars,
                           idleMs, timedOut, elapsedMs, overLimit, steady, drainWaitMs>>

NextWatchdog ==
    \/ Tick
    \/ Activity
    \/ WatchdogPoll
    \/ \E code \in {"exit0", "exit1"} : ProcExit(1, code)
    \/ RaceExit(1)
    \/ StreamDrainDone
    \/ Abort

SpecWatchdog == InitWatchdog /\ [][NextWatchdog]_vars

\* ------------------------------------------------------------------------
\* The session map over turns of any conversations (SpecSession)
\* ------------------------------------------------------------------------
\* sendMessage, lines 691-703: the arguments of a turn for conversationId
ArgsFor(conversationId) ==
    [conversation |-> conversationId,
     hasResume |-> ResumeSessionId(sessionByConversation[conversationId]) # <<>>,
     resume |-> ResumeSessionId(sessionByConversation[conversationId]),
     stored |-> sessionByConversation[conversationId],
     permission |-> AppendPermissionModeArgs(<<>>, settings)]

BuildArgs(conversationId) ==
    /\ args' = ArgsFor(conversationId)
    /\ RuntimeEnvironmentApplied
    /\ UNCHANGED <<lifeVars, gateVars, streamVars, clockVars, managerVars, sessionByConversation, titleCall>>

\* the capture with one place for the session id of all conversations
SessionIdSeenShared(conversationId, session_id) ==
    /\ args.conversation = conversationId
    /\ sessionByConversation' =
          [c \in Conversations |->
              CaptureSessionId([session |-> sessionByConversation[conversationId]],
                               [NoEvent EXCEPT !.session_id = session_id]).session]
    /\ UNCHANGED <<lifeVars, gateVars, streamVars, clockVars, managerVars, args, cliEnv, titleCall>>

\* handleStreamEvent, lines 1099-1106: an event of the turn running for
\* conversationId carries session_id
SessionIdSeen(conversationId, session_id) ==
    /\ args.conversation = conversationId
    /\ sessionByConversation' =
          [sessionByConversation EXCEPT ![conversationId] =
              CaptureSessionId([session |-> @], [NoEvent EXCEPT !.session_id = session_id]).session]
    /\ UNCHANGED <<lifeVars, gateVars, streamVars, clockVars, managerVars, args, cliEnv, titleCall>>

NextSession ==
    \/ \E cfg \in RangeOf(SettingsChoices) : UpdateSettings(cfg)
    \/ \E c \in Conversations : BuildArgs(c)
    \/ \E c \in Conversations, token \in RangeOf(SessionTokens) \cup {<<>>} :
            SessionIdSeen(c, token)

SpecSession == Init /\ [][NextSession]_vars

\* ------------------------------------------------------------------------
\* The session map beside the other operations of the engine (SpecFrame):
\* turns of any conversations, abort, updateSettings and a call of
\* generateConversationTitle whose subprocess prints a session_id.
\* ------------------------------------------------------------------------
NextFrame ==
    \/ \E cfg \in {SettingsChoices[1], SettingsChoices[2]} : UpdateSettings(cfg)
    \/ \E c \in Conversations : BuildArgs(c)
    \/ \E c \in Conversations, token \in {SessionTokens[1], SessionTokens[2], <<>>} :
            SessionIdSeen(c, token)
    \/ Abort
    \/ \E u, a \in {<<>>, <<"a">>}, loads \in BOOLEAN : GenerateConversationTitle(u, a, loads)
    \/ \E how \in {"pipe", "nostdin", "reject"} : TitleSpawnSettles(how)
    \/ \E ok \in BOOLEAN : TitleStdinSettles(ok)
    \/ \E code \in {"exit0", "exit1"} : TitleProcExit(code)
    \/ \E data \in TitleChunks : TitleRead(data)
    \/ TitleReadEof
    \/ TitleReadFails
    \/ TitleWaitResolves

SpecFrame == Init /\ [][NextFrame]_vars

\* ------------------------------------------------------------------------
\* The ConversationManager by itself (SpecManager): its public methods in
\* any order and with any id, and the calendar moving on between the calls.
\* ------------------------------------------------------------------------
Retentions == {RetentionShortDays, RetentionLongDays}

\* every id that was or will be made
IdPool == {ConversationIds[n] : n \in 1..MaxConversations}

ManagerFrame == UNCHANGED <<lifeVars, gateVars, streamVars, sessionVars, clockVars, turnConversation>>

Create ==
    /\ created < MaxConversations
    /\ \E r \in Retentions :
          StoreManager(ManagerCreate(Manager, ConversationIds[created + 1], nowDays, r))
    /\ created' = created + 1
    /\ UNCHANGED nowDays
    /\ ManagerFrame

SwitchTo(id) ==
    /\ StoreManager(ManagerSwitchTo(Manager, id))
    /\ UNCHANGED <<nowDays, created>>
    /\ ManagerFrame

Delete(id) ==
    /\ \E r \in Retentions : StoreManager(ManagerDelete(Manager, id, nowDays, r))
    /\ UNCHANGED <<nowDays, created>>
    /\ ManagerFrame

AddMessage(id, role) ==
    /\ id \in DOMAIN messages => Len(messages[id]) < MaxMessages
    /\ \E r \in Retentions :
          StoreManager(ManagerAddMessage(Manager, id, [role |-> role, turn |-> 1], nowDays, r))
    /\ UNCHANGED <<nowDays, created>>
    /\ ManagerFrame

UpdateTitle(id) ==
    /\ \E r \in Retentions : StoreManager(ManagerUpdateTitle(Manager, id, nowDays, r))
    /\ UNCHANGED <<nowDays, created>>
    /\ ManagerFrame

Save ==
    /\ \E r \in Retentions : StoreManager(ManagerSave(Manager, nowDays, r))
    /\ UNCHANGED <<nowDays, created>>
    /\ ManagerFrame

Load ==
    /\ \E r \in Retentions : StoreManager(ManagerLoad(Manager, nowDays, r))
    /\ UNCHANGED <<nowDays, created>>
    /\ ManagerFrame

Clear ==
    /\ \E r \in Retentions : StoreManager(ManagerClear(Manager, nowDays, r))
    /\ UNCHANGED <<nowDays, created>>
    /\ ManagerFrame

\* Date.now() of the later calls is ClockStepDays later
ClockStep ==
    /\ nowDays < MaxClockSteps * ClockStepDays
    /\ nowDays' = nowDays + ClockStepDays
    /\ UNCHANGED <<conversations, messages, activeConversationId, storedConversations, created>>
    /\ ManagerFrame

NextManager ==
    \/ Create
    \/ \E id \in IdPool : SwitchTo(id)
    \/ \E id \in IdPool : Delete(id)
    \/ \E id \in IdPool : AddMessage(id, "user")
    \/ \E id \in IdPool : UpdateTitle(id)
    \/ Save
    \/ Load
    \/ Clear
    \/ ClockStep

SpecManager == Init /\ [][NextManager]_vars

\* ------------------------------------------------------------------------
\* The chat panel over the engine and the manager (SpecPanel): handleSend
\* starts the turns, the message callback of wireCallbacks receives their
\* messages, and the user switches, creates and deletes conversations at
\* any moment (ChatPanel.ts, none of the three looks at service.busy).
\* ------------------------------------------------------------------------
\* ensureActiveConversation (ChatPanel.ts, lines 1289-1296); id is the id
\* that create() would make
EnsureActiveConversation(M, id, now, retentionDays) ==
    IF M.activeConversationId = NoId THEN ManagerCreate(M, id, now, retentionDays) ELSE M

\* whether the call above made a conversation
Creates(M) == IF M.activeConversationId = NoId THEN 1 ELSE 0

\* the message callback of wireCallbacks (ChatPanel.ts, lines 987-992) for
\* the message of turn t
WireCallbacksOnMessage(M, t, now, retentionDays) ==
    IF M.activeConversationId # NoId
    THEN ManagerAddMessage(M, M.activeConversationId, [role |-> "assistant", turn |-> t],
                           now, retentionDays)
    ELSE M

\* handleSend (ChatPanel.ts, lines 1105-1153) up to the first await of
\* sendMessage; rename: the title is derived from the text (lines 1143-1149)
HandleSend(resolved, rename) ==
    /\ ~isRunning
    /\ \E t \in Turns : pc[t] = "idle"
    /\ created + Creates(Manager) <= MaxConversations
    /\ \E r1, r2 \in Retentions :
          LET M1 == EnsureActiveConversation(Manager, ConversationIds[created + 1], nowDays, r1)
              convId == M1.activeConversationId
              M2 == ManagerAddMessage(M1, convId, [role |-> "user", turn |-> NextTurn],
                                      nowDays, r1)
              M3 == IF rename THEN ManagerUpdateTitle(M2, convId, nowDays, r2) ELSE M2
          IN  /\ StoreManager(M3)
              /\ turnConversation' = [turnConversation EXCEPT ![NextTurn] = convId]
    /\ created' = created + Creates(Manager)
    /\ UNCHANGED nowDays
    /\ SendMessageCall(resolved)

\* lines 890-900 with the panel wired: the message callback runs within
\* the step that fires it
DrainDonePanel(t, tail) ==
    /\ DrainDoneCall(t, tail)
    /\ IF Count(cbLog'[t], "message") > Count(cbLog[t], "message")
       THEN \E r \in Retentions : StoreManager(WireCallbacksOnMessage(Manager, t, nowDays, r))
       ELSE UNCHANGED <<conversations, messages, activeConversationId, storedConversations>>
    /\ UNCHANGED <<nowDays, created, turnConversation>>

PanelFrame == UNCHANGED <<lifeVars, gateVars, streamVars, sessionVars, clockVars, turnConversation>>

\* switchConversation (ChatPanel.ts, lines 1313-1323)
SwitchConversation(id) ==
    /\ StoreManager(ManagerSwitchTo(Manager, id))
    /\ UNCHANGED <<nowDays, created>>
    /\ PanelFrame

\* newChat (ChatPanel.ts, lines 1325-1333)
NewChat ==
    /\ created < MaxConversations
    /\ \E r \in Retentions :
          StoreManager(ManagerCreate(Manager, ConversationIds[created + 1], nowDays, r))
    /\ created' = created + 1
    /\ UNCHANGED nowDays
    /\ PanelFrame

\* deleteConversationById (ChatPanel.ts, lines 1357-1375)
DeleteConversationById(id) ==
    /\ id \in ConvIdsOf(conversations)
    /\ \E r1, r2 \in Retentions :
          LET M1 == ManagerDelete(Manager, id, nowDays, r1)
          IN  /\ created + Creates(M1) <= MaxConversations
              /\ StoreManager(EnsureActiveConversation(M1, ConversationIds[created + 1],
                                                       nowDays, r2))
              /\ created' = created + Creates(M1)
    /\ UNCHANGED nowDays
    /\ PanelFrame

NextPanel ==
    \/ \E resolved, rename \in BOOLEAN : HandleSend(resolved, rename)
    \/ \E t \in Turns : SpawnResolve(t)
    \/ \E t \in Turns : SpawnReject(t)
    \/ \E t \in Turns : StdinWritten(t)
    \/ \E t \in Turns : StdinFails(t)
    \/ \E t \in Turns, code \in {"exit0", "exit1"} : ProcExit(t, code)
    \/ \E t \in Turns : StdoutChunk(t, "text")
    \/ \E t \in Turns : RaceExit(t)
    \/ \E t \in Turns, tail \in {"none", "text"} : DrainDonePanel(t, tail)
    \/ Abort
    \/ \E id \in IdPool : SwitchConversation(id)
    \/ NewChat
    \/ \E id \in IdPool : DeleteConversationById(id)

SpecPanel == Init /\ [][NextPanel]_vars

\* ------------------------------------------------------------------------
\* updateSettings between the starts of turns (SpecSettings): the settings
\* with any of the environmentVariables texts, and the arguments and the
\* environment that the subprocess of each turn is started with.
\* ------------------------------------------------------------------------
NextSettings ==
    \/ \E cfg \in RangeOf(SettingsChoices), text \in RangeOf(EnvTexts) :
            UpdateSettings([cfg EXCEPT !.environmentVariables = text])
    \/ \E c \in Conversations : BuildArgs(c)

SpecSettings == Init /\ [][NextSettings]_vars

\* ------------------------------------------------------------------------
\* Turn after turn in detail (SpecTurns): turn 1 is the turn in progress,
\* followed as in SpecEvents; when the next sendMessage starts, the settled
\* turn moves to the next free place of Turns and the locals of sendMessage
\* start afresh. The map, the settings and deltaText (here the text deltas
\* of all turns) go on. A turn starts once the one before has settled.
\* ------------------------------------------------------------------------
\* streamState with the flag of the turn before
StreamStateKept(conversationId, saw) ==
    [conversationId |-> conversationId, sawTextDelta |-> saw]

\* streamState (lines 746-749)
StreamState(conversationId, saw) ==
    [conversationId |-> conversationId, sawTextDelta |-> FALSE]

TurnChunks ==
    {<<Json(EvDelta), NL>>,
     <<Json([EvAssistantText EXCEPT !.session_id = SessionTokens[2]]), NL>>,
     <<Json([NoEvent EXCEPT !.type = "system", !.session_id = SessionTokens[1]]), NL>>}

\* sendMessage (lines 657-770 and 822-823) after a settled turn
NextSendMessage(conversationId) ==
    /\ ~isRunning
    /\ pc[1] = "done"
    /\ \E t \in Turns \ {1} : pc[t] = "idle"
    /\ LET t == CHOOSE u \in Turns \ {1} :
                    pc[u] = "idle" /\ \A v \in Turns \ {1} : pc[v] = "idle" => u <= v
           streamState == StreamState(conversationId, sawTextDelta)
       IN /\ pc' = [pc EXCEPT ![t] = "done", ![1] = "stream"]
          /\ procSt' = [procSt EXCEPT ![t] = procSt[1], ![1] = "alive"]
          /\ hasText' = [hasText EXCEPT ![t] = hasText[1], ![1] = FALSE]
          /\ streamReadError' = [streamReadError EXCEPT ![t] = streamReadError[1], ![1] = FALSE]
          /\ readLoop' = [readLoop EXCEPT ![t] = readLoop[1], ![1] = "on"]
          /\ cbLog' = [cbLog EXCEPT ![t] = cbLog[1], ![1] = <<"start">>]
          /\ aborted' = [aborted EXCEPT ![t] = aborted[1], ![1] = FALSE]
          /\ endClean' = [endClean EXCEPT ![t] = endClean[1], ![1] = TRUE]
          /\ sawTextDelta' = streamState.sawTextDelta
          /\ args' = ArgsFor(streamState.conversationId)
    /\ isRunning' = TRUE
    /\ abortRequested' = FALSE
    /\ currentProcess' = 1
    /\ toolLog' = <<>>
    /\ buffer' = <<>>
    /\ fullResponse' = <<>>
    /\ streamPayloads' = <<>>
    /\ sawStructuredEvent' = FALSE
    /\ readError' = NoThrow
    /\ streamOpen' = TRUE
    /\ chunksRead' = 0
    /\ lastError' = NoThrow
    /\ messageContent' = <<>>
    /\ sawReplyText' = FALSE
    /\ otherText' = FALSE
    /\ toolsInFlight' = 0
    /\ toolResults' = <<>>
    /\ stderrOutput' = <<>>
    /\ errorSeen' = NoErrorSeen
    /\ stdoutRead' = <<>>
    /\ RuntimeEnvironmentApplied
    /\ UNCHANGED <<settings, deltaText, sessionByConversation, titleCall, clockVars, managerVars>>

NextTurns ==
    \/ \E data \in TurnChunks : StdoutChunkRead(data)
    \/ StreamEof
    \/ \E code \in {"exit0", "exit1"} : ProcExit(1, code)
    \/ RaceExit(1)
    \/ StreamDrainDone
    \/ Abort
    \/ \E c \in Conversations : NextSendMessage(c)

SpecTurns == InitEvents /\ [][NextTurns]_vars

\* ========================================================================
\* Claims about the turn lifecycle (Spec)
\* ========================================================================
Messages(t) == Count(cbLog[t], "message")
Errors(t) == Count(cbLog[t], "error")
Silent(t) == pc[t] = "done" /\ Messages(t) = 0 /\ Errors(t) = 0

\* C1: a sendMessage call made while an earlier call has not settled spawns
\* no process, so two turns are never in flight with their subprocesses both
\* alive.
C1_OneLiveSubprocess ==
    \A t, u \in Turns :
        t # u => ~(InFlight(t) /\ InFlight(u) /\ procSt[t] = "alive" /\ procSt[u] = "alive")

\* C2: a turn fires at most one of message-complete and error, at most once,
\* and only when it settles; a settled turn that fired neither is an aborted
\* turn.
C2_OneOutcome ==
    \A t \in Turns :
        /\ Messages(t) + Errors(t) <= 1
        /\ pc[t] # "done" => Messages(t) + Errors(t) = 0
        /\ pc[t] = "done" => (Messages(t) + Errors(t) = 1 \/ aborted[t])

C2_Witness ==
    \E t, u \in Turns :
        /\ pc[t] = "done" /\ Messages(t) = 1
        /\ Silent(u) /\ aborted[u]

\* C3: a turn during which abort() was called fires neither the
\* message-complete callback nor the error callback.
C3_AbortedTurnSilent ==
    \A t \in Turns : aborted[t] => Messages(t) = 0 /\ Errors(t) = 0

\* C4: once abort() was called during a turn, that turn has no live
\* subprocess for as long as it is in flight: the process was force-killed.
C4_AbortKillsProcess ==
    \A t \in Turns : aborted[t] /\ InFlight(t) => procSt[t] # "alive"

\* C5: a turn that passed the guard has fired stream-start exactly once and
\* first; stream-end fires exactly once, when the turn settles, and at that
\* moment the busy flag is false and the process handle is null.
C5_StartEndOnce ==
    \A t \in Turns :
        /\ pc[t] = "idle" => cbLog[t] = <<>>
        /\ pc[t] # "idle" => Count(cbLog[t], "start") = 1 /\ cbLog[t][1] = "start"
        /\ Count(cbLog[t], "end") = (IF pc[t] = "done" THEN 1 ELSE 0)
        /\ pc[t] = "done" => endClean[t]

C5_Witness ==
    \E t, u \in Turns :
        /\ pc[t] = "done" /\ Errors(t) = 1 /\ Count(cbLog[t], "end") = 1
        /\ Silent(u) /\ aborted[u] /\ Count(cbLog[u], "end") = 1

C13_IoFailureKillsAndReports ==
    [][\A t \in Turns :
         /\ (pc[t] = "write" /\ pc'[t] = "done" /\ ~abortRequested) =>
                (procSt'[t] # "alive" /\ Count(cbLog'[t], "error") = 1)
         /\ (~streamReadError[t] /\ streamReadError'[t]) => procSt'[t] # "alive"]_vars

\* the same path, written with slashes
Slashed(path) == [i \in DOMAIN path |-> IF path[i] = "\\" THEN "/" ELSE path[i]]

\* some directory of the PATH variable holds the name, as it is or with one
\* of the suffixes .exe, .cmd, .bat
InSomePathDirectory(name, env) ==
    \E sep \in {";", ":"} :
        /\ (sep = ";") <=> (\E i \in DOMAIN env.PATH : env.PATH[i] = ";")
        /\ \E dir \in RangeOf(SplitOn(env.PATH, sep, <<>>)), f \in env.files,
              suffix \in {<<>>, <<".", "e", "x", "e">>, <<".", "c", "m", "d">>,
                          <<".", "b", "a", "t">>} :
              /\ dir # <<>>
              /\ Slashed(f) \in {Slashed(dir \o <<"/">> \o name \o suffix),
                                 Slashed(dir \o name \o suffix)}

\* the configured executable cannot be resolved: a blank path, a literal path
\* that does not exist, a bare name (claude when no path is configured) that
\* is in no PATH directory
Unresolvable(env) ==
    LET path == Trim(IF env.claudeCliPath = <<>> THEN <<"c", "l", "a", "u", "d", "e">>
                     ELSE env.claudeCliPath)
    IN \/ path = <<>>
       \/ /\ \E i \in DOMAIN path : path[i] \in {"/", "\\"}
          /\ path \notin env.files
       \/ /\ \A i \in DOMAIN path : path[i] \notin {"/", "\\"}
          /\ ~InSomePathDirectory(path, env)

\* C14: when the configured executable cannot be resolved, a turn spawns no
\* process, fires the error callback once and no message, and leaves the busy
\* flag cleared; nothing is tried again.
C14_UnresolvedFailsFast ==
    Unresolvable(cliEnv) =>
        /\ ~isRunning /\ currentProcess = 0
        /\ \A t \in Turns :
              /\ procSt[t] = "none"
              /\ pc[t] \in {"idle", "done"}
              /\ pc[t] = "done" => cbLog[t] = <<"start", "error", "end">>

\* two turns have failed on a bare name that no directory of a PATH with
\* several directories holds
C14_Witness ==
    /\ Unresolvable(cliEnv)
    /\ cliEnv.claudeCliPath = <<>>
    /\ Len(SplitOn(cliEnv.PATH, ";", <<>>)) = 2
    /\ \A t \in Turns : pc[t] = "done" /\ Errors(t) = 1

\* ========================================================================
\* Claims about the blocklist gate (SpecGate)
\* ========================================================================
ShellWords == {<<"b", "a", "s", "h">>, <<"s", "h", "e", "l", "l">>,
               <<"t", "e", "r", "m", "i", "n", "a", "l">>,
               <<"c", "o", "m", "m", "a", "n", "d">>, <<"c", "m", "d">>}

\* the name contains one of the shell words, whatever the case of its letters
NamesShell(name) ==
    \E w \in ShellWords : \E i \in 1..Len(name) :
        /\ i + Len(w) - 1 <= Len(name)
        /\ \A k \in 1..Len(w) : LowerChar(name[i + k - 1]) = w[k]

\* C8: a tool_use block whose name contains none of bash, shell, terminal,
\* command, cmd (in any case) is never rejected by the blocklist: whatever
\* its input and the rules, it is delivered to the tool-use callback and no
\* blocklist error is raised.
C8_NonShellNeverBlocked ==
    \A i \in DOMAIN toolLog :
        ~NamesShell(toolLog[i].name) =>
            toolLog[i].verdict = "delivered" /\ toolLog[i].rule = <<>>

\* a non-shell tool whose input carries a command that the rules in force
\* block for a shell tool, delivered
C8_Witness ==
    \E i \in DOMAIN toolLog :
        /\ ~NamesShell(toolLog[i].name)
        /\ toolLog[i].verdict = "delivered"
        /\ GetBlockedCommandMatch(ToolNames[1], toolLog[i].input, settings) # <<>>

\* ========================================================================
\* Claims about one turn's stream (SpecStream)
\* ========================================================================
\* C6: when the stream of a turn holds both text deltas and an assistant (or
\* result) event with text, in whatever order, and no other text, the final
\* text of the turn (the content of its message) is the concatenation of the
\* delta texts alone.
C6_NoDoubleText ==
    (Messages(1) = 1 /\ deltaText # <<>> /\ sawReplyText /\ ~otherText)
        => messageContent = deltaText

\* the command of the block matches a rule of the settings in force
MatchesRule(e) == GetBlockedCommandMatch(e.name, e.input, settings) # <<>>

BlockedInFlight == {i \in 1..toolsInFlight : toolLog[i].verdict = "blocked"}

C12_ErrorEventEndsTurn ==
    (errorSeen.seen /\ ~aborted[1]) =>
        /\ ~streamOpen =>
               /\ fullResponse = errorSeen.text
               /\ Len(toolLog) = errorSeen.tools
               /\ Len(toolResults) = errorSeen.results
        /\ pc[1] = "done" =>
               /\ Errors(1) = 1
               /\ lastError = [kind |-> "event", rule |-> errorSeen.message]

\* ========================================================================
\* Claims about the inactivity watchdog (SpecWatchdog)
\* ========================================================================
TimeoutReported ==
    /\ pc[1] = "done" /\ procSt[1] = "killed"
    /\ Errors(1) = 1 /\ Messages(1) = 0 /\ lastError.kind = "timeout"

HexDigits == {"0", "1", "2", "3", "4", "5", "6", "7", "8", "9",
              "a", "b", "c", "d", "e", "f", "A", "B", "C", "D", "E", "F"}

\* xxxxxxxx-xxxx-[1-5]xxx-[89ab]xxx-xxxxxxxxxxxx, x a hexadecimal digit of
\* either case
WellFormedUuid(x) ==
    /\ Len(x) = 36
    /\ \A i \in {9, 14, 19, 24} : x[i] = "-"
    /\ x[15] \in {"1", "2", "3", "4", "5"}
    /\ x[20] \in {"8", "9", "a", "b", "A", "B"}
    /\ \A i \in (1..36) \ {9, 14, 15, 19, 20, 24} : x[i] \in HexDigits

\* C10: the arguments of a turn for a conversation contain --resume X if
\* and only if the session map entry of the conversation at that time is X
\* and X is a well-formed UUID; a stored token that is not one is never
\* passed.
C10_ResumeIffWellFormed ==
    args.conversation # "" =>
        /\ args.hasResume <=> (args.stored # <<>> /\ WellFormedUuid(args.stored))
        /\ args.hasResume => args.resume = args.stored
        /\ ~args.hasResume => args.resume = <<>>

\* a turn resumes its conversation's session while the other conversation
\* holds a token that is no UUID
C10_Witness ==
    \E c, d \in Conversations :
        /\ args.conversation = c /\ args.hasResume /\ args.resume = SessionTokens[2]
        /\ sessionByConversation[c] = SessionTokens[2]
        /\ sessionByConversation[d] = SessionTokens[3]

\* ------------------------------------------------------------------------
\* Claims on the exit code (SpecExit)
\* ------------------------------------------------------------------------
\* the known failure signatures in the order in which they are tried: a
\* signature is in a text when all phrases of one of its alternatives are
ExitSignatures == <<
    \* requires git-bash
    [template |-> "git-bash",
     alts |-> {{<<"r", "e", "q", "u", "i", "r", "e", "s", " ", "g", "i", "t", "-", "b", "a", "s", "h">>}}],
    \* unable to find claude_code_git_bash_path
    [template |-> "git-bash-path",
     alts |-> {{<<"u", "n", "a", "b", "l", "e", " ", "t", "o", " ", "f", "i", "n", "d", " ", "c", "l", "a", "u", "d", "e", "_", "c", "o", "d", "e", "_", "g", "i", "t", "_", "b", "a", "s", "h", "_", "p", "a", "t", "h">>}}],
    \* session id + already in use
    [template |-> "session-locked",
     alts |-> {{<<"s", "e", "s", "s", "i", "o", "n", " ", "i", "d">>, <<"a", "l", "r", "e", "a", "d", "y", " ", "i", "n", " ", "u", "s", "e">>}}],
    \* invalid json provided to --settings
    [template |-> "settings-json",
     alts |-> {{<<"i", "n", "v", "a", "l", "i", "d", " ", "j", "s", "o", "n", " ", "p", "r", "o", "v", "i", "d", "e", "d", " ", "t", "o", " ", "-", "-", "s", "e", "t", "t", "i", "n", "g", "s">>}}],
    \* requires --verbose + stream-json
    [template |-> "verbose",
     alts |-> {{<<"r", "e", "q", "u", "i", "r", "e", "s", " ", "-", "-", "v", "e", "r", "b", "o", "s", "e">>, <<"s", "t", "r", "e", "a", "m", "-", "j", "s", "o", "n">>}}],
    \* unknown option + --thinking-budget
    [template |-> "thinking-budget",
     alts |-> {{<<"u", "n", "k", "n", "o", "w", "n", " ", "o", "p", "t", "i", "o", "n">>, <<"-", "-", "t", "h", "i", "n", "k", "i", "n", "g", "-", "b", "u", "d", "g", "e", "t">>}}],
    \* unknown option + --max-turns
    [template |-> "max-turns",
     alts |-> {{<<"u", "n", "k", "n", "o", "w", "n", " ", "o", "p", "t", "i", "o", "n">>, <<"-", "-", "m", "a", "x", "-", "t", "u", "r", "n", "s">>}}],
    \* not authenticated | claude auth
    [template |-> "auth",
     alts |-> {{<<"n", "o", "t", " ", "a", "u", "t", "h", "e", "n", "t", "i", "c", "a", "t", "e", "d">>}, {<<"c", "l", "a", "u", "d", "e", " ", "a", "u", "t", "h">>}}] >>

SignatureIn(i, text) ==
    \E alt \in ExitSignatures[i].alts : \A phrase \in alt : Includes(ToLowerCase(text), phrase)

FirstSignatureIn(i, text) ==
    /\ SignatureIn(i, text)
    /\ \A j \in 1..(i - 1) : ~SignatureIn(j, text)

\* C15: when a turn that was not aborted and had no stream error reaches
\* the end of its drain with a process that ended with a non-zero code, it
\* emits no message and one error; the error is the template of the first
\* signature (in the order of the checks) that is in stderr, the generic
\* message with the code and the trimmed stderr exactly when stderr is not
\* blank and holds no signature, and a message of the code alone exactly when
\* stderr is blank.
C15_NonZeroExitIsClassified ==
    [][(/\ pc[1] = "drain" /\ pc'[1] = "done"
        /\ ~abortRequested /\ readError.kind = "none"
        /\ procSt[1] \in {"exit1", "killed"}) =>
           /\ Count(cbLog'[1], "message") = 0
           /\ Count(cbLog'[1], "error") = 1
           /\ lastError'.kind = "exit"
           /\ \A i \in DOMAIN ExitSignatures :
                  (lastError'.rule = <<ExitSignatures[i].template>>)
                      <=> FirstSignatureIn(i, stderrOutput)
           /\ (Head(lastError'.rule) = "generic") <=>
                  /\ Trim(stderrOutput) # <<>>
                  /\ \A i \in DOMAIN ExitSignatures : ~SignatureIn(i, stderrOutput)
           /\ (Head(lastError'.rule) = "generic") =>
                  lastError'.rule = <<"generic", ExitCode(procSt[1])>> \o Trim(stderrOutput)
           /\ (Head(lastError'.rule) \in {"code-only", "ended-unexpectedly"}) <=>
                  Trim(stderrOutput) = <<>>]_vars

\* exit code 1 after text was accumulated, with a stderr that holds the
\* signatures of two templates: the one that is checked first is reported
C15_Witness ==
    /\ pc[1] = "done" /\ ~aborted[1] /\ procSt[1] = "exit1" /\ readError.kind = "none"
    /\ fullResponse # <<>>
    /\ SignatureIn(8, stderrOutput) /\ SignatureIn(1, stderrOutput)
    /\ lastError = [kind |-> "exit", rule |-> <<"git-bash">>]
    /\ Messages(1) = 0 /\ Errors(1) = 1

\* ------------------------------------------------------------------------
\* Claims on the empty reply (SpecEvents)
\* ------------------------------------------------------------------------
\* a line of stdout that is one JSON text, blanks and a data: prefix aside
IsJsonLine(line) ==
    \E i \in 1..Len(line) :
        /\ line[i].k = "json"
        /\ \A j \in (1..Len(line)) \ {i} : line[j].k \in {"sp", "data"}

SomeLineParsed(text) == \E i \in 1..Len(SplitTokens(text)) : IsJsonLine(SplitTokens(text)[i])

\* C16: when a turn that was not aborted and had no stream error ends its
\* drain with exit code 0 and a text that is empty or blank, it emits no
\* message and one error; the error says that no structured stream output
\* was received exactly when no line read from stdout parsed as JSON, and
\* that stream events but no assistant text were received otherwise.
C16_EmptyReplyIsClassified ==
    [][(/\ pc[1] = "drain" /\ pc'[1] = "done"
        /\ ~abortRequested /\ readError.kind = "none"
        /\ procSt[1] = "exit0"
        /\ Trim(fullResponse') = <<>>
        /\ lastError'.kind \notin {"blocked", "event"}) =>
           /\ Count(cbLog'[1], "message") = 0
           /\ Count(cbLog'[1], "error") = 1
           /\ lastError'.kind = "empty"
           /\ (Head(lastError'.rule) = "No structured stream output was received.")
                  <=> ~SomeLineParsed(stdoutRead)
           /\ (Head(lastError'.rule) = "Received stream events but no assistant text.")
                  <=> SomeLineParsed(stdoutRead)]_vars

\* exit code 0 after a system event and a delta of one blank: the text is
\* whitespace only and the error tells that events were received
C16_Witness ==
    /\ pc[1] = "done" /\ ~aborted[1] /\ procSt[1] = "exit0" /\ readError.kind = "none"
    /\ fullResponse = <<" ">> /\ SomeLineParsed(stdoutRead)
    /\ lastError.kind = "empty"
    /\ Head(lastError.rule) = "Received stream events but no assistant text."
    /\ Messages(1) = 0 /\ Errors(1) = 1

\* ------------------------------------------------------------------------
\* Claims on the conversation title (SpecTitle)
\* ------------------------------------------------------------------------
\* C17: no step of generateConversationTitle throws, fires a callback of a
\* turn or changes the busy flag, the abort flag or the process handle; the
\* call returns null when it ends before proc.wait() (empty inputs, module or
\* executable not found, spawn rejected, no stdin, write or read exception),
\* when the exit code is not 0 and when the text is blank.
C17_TitleFailuresAreSwallowed ==
    [][titleCall' # titleCall =>
          /\ isRunning' = isRunning
          /\ abortRequested' = abortRequested
          /\ currentProcess' = currentProcess
          /\ cbLog' = cbLog
          /\ ~titleCall'.threw
          /\ (/\ titleCall.pc # "returned" /\ titleCall'.pc = "returned"
              /\ \/ titleCall.pc # "wait"
                 \/ titleCall.proc # "exit0"
                 \/ Trim(titleCall.fullResponse) = <<>>) => titleCall'.value = <<>>]_vars

\* a call ended in null on its read exception after text was collected, while a turn
\* is in flight with its process alive
C17_Witness ==
    /\ titleCall.pc = "returned" /\ titleCall.value = <<>> /\ ~titleCall.threw
    /\ titleCall.fullResponse # <<>> /\ titleCall.proc = "alive"
    /\ \E t \in Turns : isRunning /\ currentProcess = t /\ procSt[t] = "alive" /\ cbLog[t] = <<"start">>

\* ------------------------------------------------------------------------
\* The chat panel behind the callbacks of a turn (ChatPanel.wireCallbacks)
\* ------------------------------------------------------------------------
\* the ChatMessage of handleStreamUpdate (ChatPanel.ts, lines 1198-1204)
StreamMsg(t) == [id |-> t, role |-> "assistant", isStreaming |-> TRUE]

\* what the panel holds for a turn: the messages added to a conversation
\* (ConversationManager.addMessage), the messages received through the
\* message callback, and the streaming element (<<>> = null)
NoPanel == [messages |-> <<>>, delivered |-> <<>>, currentStreamingEl |-> <<>>]

\* onMessage (ChatPanel.ts, lines 987-1000), a conversation being active
OnMessage(P, msg) ==
    [P EXCEPT !.messages = Append(@, msg), !.delivered = Append(@, msg),
              !.currentStreamingEl = <<>>]

\* the streaming message would be added to the conversation as well
HandleStreamUpdatePersists(P, t) ==
    [P EXCEPT !.messages = Append(@, StreamMsg(t)), !.currentStreamingEl = <<StreamMsg(t)>>]

\* handleStreamUpdate (ChatPanel.ts, lines 1194-1212): the streaming
\* message is rendered, later updates change the element only
HandleStreamUpdate(P, t) ==
    IF P.currentStreamingEl = <<>> THEN [P EXCEPT !.currentStreamingEl = <<StreamMsg(t)>>]
    ELSE P

\* the callbacks of turn t, in the order in which the engine fired them;
\* onError, onStreamStart and onStreamEnd touch neither list
RECURSIVE PanelAfter(_, _, _)
PanelAfter(P, log, t) ==
    IF log = <<>> THEN P
    ELSE PanelAfter(CASE Head(log) = "message" -> OnMessage(P, AssistantMessage(t))
                      [] Head(log) = "stream" -> HandleStreamUpdate(P, t)
                      [] OTHER -> P,
                    Tail(log), t)

\* ------------------------------------------------------------------------
\* Claims on the messages kept by the panel (Spec)
\* ------------------------------------------------------------------------
NoStreamingIn(list) == \A i \in DOMAIN list : ~list[i].isStreaming

NothingPartial(P, failed) ==
    /\ NoStreamingIn(P.delivered)
    /\ NoStreamingIn(P.messages)
    /\ failed => P.messages = <<>>

\* C18: no message with isStreaming true reaches the message callback or
\* the message list of a conversation, and a settled turn that ended in an
\* error (a timeout is one) or silently after abort() has added no assistant
\* message, whatever was streamed before.
C18_NoPartialMessageKept ==
    \A t \in Turns :
        NothingPartial(PanelAfter(NoPanel, cbLog[t], t),
                       pc[t] = "done" /\ (Errors(t) = 1 \/ Silent(t)))

\* one turn streamed text and then failed, another streamed text, was
\* aborted and ended silently
C18_Witness ==
    \E t, u \in Turns :
        /\ cbLog[t] = <<"start", "stream", "error", "end">>
        /\ PanelAfter(NoPanel, cbLog[t], t).currentStreamingEl = <<StreamMsg(t)>>
        /\ cbLog[u] = <<"start", "stream", "end">> /\ aborted[u]

\* ------------------------------------------------------------------------
\* Claims on tool results and on the order of the stream (SpecEvents)
\* ------------------------------------------------------------------------
\* the lines of a text that end in a newline, and all its lines
CompleteLines(text) == SubSeq(SplitTokens(text), 1, Len(SplitTokens(text)) - 1)

EventOf(line) == line[CHOOSE i \in 1..Len(line) : line[i].k = "json"].ev

\* the tool_use_ids of the tool results that a stdout text carries, in
\* the order of the text: top-level tool_result events and tool_result items
\* of the content of user and assistant events
RECURSIVE ResultIdsOfBlocks(_)
ResultIdsOfBlocks(blocks) ==
    IF blocks = <<>> THEN <<>>
    ELSE (IF Head(blocks).type = "tool_result" THEN <<Head(blocks).id>> ELSE <<>>)
             \o ResultIdsOfBlocks(Tail(blocks))

ResultIdsOfEvent(ev) ==
    IF ev.type = "tool_result" THEN <<ev.block.id>>
    ELSE IF ev.type \in {"user", "assistant"} THEN ResultIdsOfBlocks(ev.content)
    ELSE <<>>

RECURSIVE ResultIdsOfLines(_)
ResultIdsOfLines(lines) ==
    IF lines = <<>> THEN <<>>
    ELSE (IF IsJsonLine(Head(lines)) THEN ResultIdsOfEvent(EventOf(Head(lines))) ELSE <<>>)
             \o ResultIdsOfLines(Tail(lines))

\* no line of the turn has thrown so far (read exception, error event,
\* blocked tool use): every line read was processed to its end
NothingThrown(err, seen, log) ==
    /\ err.kind = "none"
    /\ ~seen.seen
    /\ \A i \in DOMAIN log : log[i].verdict # "blocked"

\* C19: as long as no line of the turn has thrown, the tool-result
\* callbacks fired so far carry, one for one and in order, the tool_use_ids
\* of the tool results in the complete lines read from stdout, and after the
\* drain those of the unterminated last line too, whether or not a tool use
\* with that id was delivered.
C19_EveryToolResultDelivered ==
    [][NothingThrown(readError', errorSeen', toolLog') =>
          /\ pc'[1] # "done" => toolResults' = ResultIdsOfLines(CompleteLines(stdoutRead'))
          /\ (pc[1] = "drain" /\ pc'[1] = "done") =>
                 toolResults' = ResultIdsOfLines(SplitTokens(stdoutRead))]_vars

\* two results of a user event were delivered, the first for a tool use
\* that was never seen, then a result on the unterminated last line
C19_Witness ==
    /\ pc[1] = "done" /\ ~aborted[1]
    /\ toolLog = <<>>
    /\ toolResults = <<"t2", "t1", "t1">>
    /\ stdoutRead = <<Json(EvUser), NL, Json(EvToolResult)>>

\* the text that the lines of a stdout text append, line after line; saw
\* tells that a text delta came before
RECURSIVE TextOfBlocks(_)
TextOfBlocks(blocks) ==
    IF blocks = <<>> THEN <<>>
    ELSE (IF Head(blocks).type = "text" THEN Head(blocks).text ELSE <<>>)
             \o TextOfBlocks(Tail(blocks))

TextOfEvent(ev, saw) ==
    CASE ev.type = "content_block_delta" -> ev.text
      [] ev.type = "assistant" /\ ~saw -> TextOfBlocks(ev.content)
      [] ev.type = "result" /\ ~saw -> ev.text
      [] OTHER -> <<>>

\* a line without the blanks around it and without a data: prefix
LineBody(line) ==
    IF TrimTokens(line) # <<>> /\ Head(TrimTokens(line)).k = "data"
    THEN TrimTokens(Tail(TrimTokens(line)))
    ELSE TrimTokens(line)

RECURSIVE TextOfLines(_, _)
TextOfLines(lines, saw) ==
    IF lines = <<>> THEN <<>>
    ELSE IF IsJsonLine(Head(lines))
    THEN TextOfEvent(EventOf(Head(lines)), saw)
             \o TextOfLines(Tail(lines),
                             saw \/ (/\ EventOf(Head(lines)).type = "content_block_delta"
                                     /\ EventOf(Head(lines)).text # <<>>))
    ELSE (IF LineBody(Head(lines)) # <<>>
          THEN Render(LineBody(Head(lines))) \o <<"\n">> ELSE <<>>)
             \o TextOfLines(Tail(lines), saw)

\* the ids of the tool uses that a stdout text carries, in its order
RECURSIVE ToolIdsOfBlocks(_)
ToolIdsOfBlocks(blocks) ==
    IF blocks = <<>> THEN <<>>
    ELSE (IF Head(blocks).type = "tool_use" THEN <<Head(blocks).id>> ELSE <<>>)
             \o ToolIdsOfBlocks(Tail(blocks))

ToolIdsOfEvent(ev) ==
    IF ev.type = "tool_use" \/ (ev.type = "content_block_start" /\ ev.block.type = "tool_use")
    THEN <<ev.block.id>>
    ELSE IF ev.type = "assistant" THEN ToolIdsOfBlocks(ev.content)
    ELSE <<>>

RECURSIVE ToolIdsOfLines(_)
ToolIdsOfLines(lines) ==
    IF lines = <<>> THEN <<>>
    ELSE (IF IsJsonLine(Head(lines)) THEN ToolIdsOfEvent(EventOf(Head(lines))) ELSE <<>>)
             \o ToolIdsOfLines(Tail(lines))

InStdoutOrder(lines, text, log, results) ==
    /\ text = TextOfLines(lines, FALSE)
    /\ [i \in DOMAIN log |-> log[i].id] = ToolIdsOfLines(lines)
    /\ results = ResultIdsOfLines(lines)

MalformedLines ==
    {[line |-> <<Plain(<<"x">>)>>, text |-> <<"x", "\n">>],
     [line |-> <<SP, Plain(<<"x">>), SP>>, text |-> <<"x", "\n">>],
     [line |-> <<DataPrefix, SP, Plain(<<"x">>)>>, text |-> <<"x", "\n">>],
     [line |-> <<DataPrefix, DoneMark>>, text |-> <<"[", "D", "O", "N", "E", "]", "\n">>],
     [line |-> <<Json(EvDelta), Plain(<<"x">>)>>, text |-> <<"{", "}", "x", "\n">>],
     [line |-> <<Json(EvError), SP, Json(EvToolUseRm)>>,
      text |-> <<"{", "}", " ", "{", "}", "\n">>],
     [line |-> <<DoneMark>>, text |-> <<>>],
     [line |-> <<Plain(<<"e", "v", "e", "n", "t", ":", "x">>)>>, text |-> <<>>],
     [line |-> <<Plain(<<":", "x">>)>>, text |-> <<>>],
     [line |-> <<DataPrefix, SP>>, text |-> <<>>]}

SameTextTwice(S, once, twice, text) ==
    /\ once = [S EXCEPT !.fullResponse = @ \o text, !.streamed = text # <<>>,
                        !.payloads = IF text = <<>> THEN @
                                     ELSE Append(@, [text |-> S.fullResponse \o text,
                                                     messageId |-> S.messageId]),
                        !.otherText = @ \/ text # <<>>]
    /\ twice = [once EXCEPT !.fullResponse = @ \o text,
                            !.payloads = IF text = <<>> THEN @
                                         ELSE Append(@, [text |-> once.fullResponse \o text,
                                                         messageId |-> S.messageId])]

\* C21: in every state of a turn, whatever was processed before and
\* whether or not a text delta was seen, processing a line that is not JSON
\* twice appends its text (the normalized line and a newline, nothing for
\* framing noise) twice and changes nothing else: no error is thrown, no
\* callback but the stream callback fires.
C21_MalformedLineIsPure ==
    \A m \in MalformedLines :
        SameTextTwice(CurrentS, ProcessOutputLine(CurrentS, m.line, settings),
                      ProcessOutputLine(ProcessOutputLine(CurrentS, m.line, settings),
                                        m.line, settings),
                      m.text)

\* the turn has read the same line that is not JSON in two chunks
C21_Witness ==
    /\ stdoutRead = <<Plain(<<"x">>), NL, Plain(<<"x">>), NL>>
    /\ fullResponse = <<"x", "\n", "x", "\n">>
    /\ ~sawStructuredEvent /\ readError.kind = "none"

\* ------------------------------------------------------------------------
\* Claims on the session ids of a stream (SpecEvents)
\* ------------------------------------------------------------------------
\* the last session_id that the events on the lines carry, on the event
\* or on its stream_event wrapper; cur when there is none
RECURSIVE LastSessionIdOf(_, _)
LastSessionIdOf(lines, cur) ==
    IF lines = <<>> THEN cur
    ELSE LastSessionIdOf(Tail(lines),
            IF ~IsJsonLine(Head(lines)) THEN cur
            ELSE IF EventOf(Head(lines)).session_id # <<>>
            THEN EventOf(Head(lines)).session_id
            ELSE IF EventOf(Head(lines)).wrapper_session_id # <<>>
            THEN EventOf(Head(lines)).wrapper_session_id
            ELSE cur)

\* C22: as long as no line of the turn has thrown, the session map entry of
\* the turn's conversation is the last non-empty session_id carried by an
\* event of the complete lines read from stdout, on the event itself or on
\* its stream_event wrapper.
C22_LastSessionIdKept ==
    (NothingThrown(readError, errorSeen, toolLog) /\ pc[1] # "done") =>
        sessionByConversation[StreamConversation] =
            LastSessionIdOf(CompleteLines(stdoutRead), <<>>)

\* the candidate of a directory, a name and a suffix as the host writes it
HostPath(dir, name, suffix, windows) ==
    LET joined == dir \o (IF dir[Len(dir)] \in {"/", "\\"} THEN <<>>
                          ELSE IF windows THEN <<"\\">> ELSE <<"/">>)
                      \o name \o suffix
    IN [i \in DOMAIN joined |-> IF windows /\ joined[i] = "/" THEN "\\" ELSE joined[i]]

\* the first candidate that exists, directory by directory and suffix by
\* suffix; the empty sequence when there is none
RECURSIVE FirstCandidate(_, _, _, _, _)
FirstCandidate(dirs, name, ext, files, windows) ==
    IF dirs = <<>> THEN <<>>
    ELSE LET hits == IF Head(dirs) = <<>> THEN {}
                     ELSE {k \in DOMAIN ext :
                              HostPath(Head(dirs), name, ext[k], windows) \in files}
         IN IF hits # {}
            THEN HostPath(Head(dirs), name,
                          ext[CHOOSE k \in hits : \A j \in hits : k <= j], windows)
            ELSE FirstCandidate(Tail(dirs), name, ext, files, windows)

\* the executable of an environment: the configured path when it names a
\* file that exists, the first candidate of the PATH directories for a bare
\* name, with the suffixes of the host
HostExecutable(env) ==
    LET name == Trim(IF env.claudeCliPath = <<>> THEN <<"c", "l", "a", "u", "d", "e">>
                     ELSE env.claudeCliPath)
    IN IF name = <<>> THEN <<>>
       ELSE IF \E i \in DOMAIN name : name[i] \in {"/", "\\"}
       THEN (IF name \in env.files THEN name ELSE <<>>)
       ELSE FirstCandidate(SplitOn(env.PATH, IF env.windows THEN ";" ELSE ":", <<>>), name,
                           IF env.windows
                           THEN <<<<".", "e", "x", "e">>, <<".", "c", "m", "d">>,
                                  <<".", "b", "a", "t">>, <<>>>>
                           ELSE <<<<>>>>,
                           env.files, env.windows)

\* C23: a turn that starts resolves the configured executable to the path
\* itself when it has a separator and exists, to the first existing candidate
\* in PATH order for a bare name (suffixes .exe, .cmd, .bat, none on Windows,
\* none elsewhere), and fails at once only when there is no such file.
C23_ResolvesFirstCandidate ==
    [][\A t \in Turns :
          (pc[t] = "idle" /\ pc'[t] # "idle") =>
              /\ ResolveCliExecutablePath(GetCliPath(cliEnv.claudeCliPath),
                                          cliEnv.PATH, cliEnv.files) = HostExecutable(cliEnv)
              /\ (pc'[t] = "done") <=> (HostExecutable(cliEnv) = <<>>)]_vars

\* C24: the arguments of a turn carry --permission-mode bypassPermissions
\* with --dangerously-skip-permissions exactly when the configured mode is
\* yolo (or none, the default); mode plan gives --permission-mode plan and
\* mode normal --permission-mode acceptEdits, without the flag.
C24_PermissionFlagsFollowMode ==
    [][args' # args =>
          /\ (args'.permission = <<"--permission-mode", "bypassPermissions",
                                   "--dangerously-skip-permissions">>)
                <=> (settings.permissionMode \in {"yolo", ""})
          /\ settings.permissionMode = "plan" =>
                args'.permission = <<"--permission-mode", "plan">>
          /\ settings.permissionMode = "normal" =>
                args'.permission = <<"--permission-mode", "acceptEdits">>]_vars

C26_TitleNeverBesideTurn ==
    ~(titleCall.proc = "alive" /\ \E t \in Turns : procSt[t] = "alive")

\* C27: the session map entry of a conversation changes only in the capture
\* step of a turn running for that conversation, and never back to none:
\* building the arguments of a turn, the capture of a turn for another
\* conversation, abort, updateSettings and every step of
\* generateConversationTitle leave it as it is.
C27_OnlyOwnCaptureWrites ==
    [][\A c \in Conversations :
          sessionByConversation'[c] # sessionByConversation[c] =>
              /\ StreamConversation = c
              /\ sessionByConversation'[c] # <<>>
              /\ UNCHANGED <<args, titleCall, settings, engineVars>>]_vars

\* the two conversations hold the session ids of their own turns after an
\* abort, a change of the settings and a title call that read a session_id
C27_Witness ==
    /\ sessionByConversation["c1"] = SessionTokens[1]
    /\ sessionByConversation["c2"] = SessionTokens[2]
    /\ args.conversation = "c2"
    /\ abortRequested /\ settings = SettingsChoices[2]
    /\ titleCall.pc = "returned" /\ titleCall.value = <<"a">> /\ titleCall.buffer # <<>>

\* C28: a turn starts with sawTextDelta false, whatever the turns before it
\* have read: as long as no line of the turn has thrown, its reply is the
\* text of the complete lines it has read itself, an assistant text included
\* when no text delta came before it in this turn.
C28_DeltaFlagPerTurn ==
    /\ chunksRead = 0 => ~sawTextDelta
    /\ (NothingThrown(readError, errorSeen, toolLog) /\ pc[1] # "done") =>
          fullResponse = TextOfLines(CompleteLines(stdoutRead), FALSE)

\* after a turn that read a text delta has settled, the turn of another
\* conversation has read an assistant event and no delta, and has its text
C28_Witness ==
    /\ \E t \in Turns \ {1} : pc[t] = "done" /\ Messages(t) = 1
    /\ deltaText = <<"a">> /\ ~sawTextDelta
    /\ args.conversation = "c2" /\ pc[1] = "stream"
    /\ stdoutRead = <<Json([EvAssistantText EXCEPT !.session_id = SessionTokens[2]]), NL>>
    /\ fullResponse = <<"a">>

\* after a line has thrown, the step that settles the turn dispatches
\* nothing: what the read loop had dispatched when it stopped is all
SettlesOnWhatWasRead ==
    (pc[1] = "drain" /\ pc'[1] = "done" /\ readError.kind # "none") =>
        UNCHANGED <<fullResponse, toolLog, toolResults>>

\* the same for the turns in which no line throws
ChunkingOfCleanLines ==
    /\ (NothingThrown(readError', errorSeen', toolLog') /\ pc'[1] # "done") =>
          InStdoutOrder(CompleteLines(stdoutRead'), fullResponse', toolLog', toolResults')
    /\ (/\ pc[1] = "drain" /\ pc'[1] = "done" /\ ~streamOpen
        /\ NothingThrown(readError', errorSeen', toolLog')) =>
          /\ procSt[1] # "alive"
          /\ InStdoutOrder(SplitTokens(stdoutRead), fullResponse', toolLog', toolResults')

\* C29: however the stdout text was cut into chunks, the reply and the
\* tool-use and tool-result callbacks are those of the lines of the text in
\* their order: of the complete lines read so far while the turn runs, of
\* all the lines, the last one without newline processed once, when the turn
\* settles after the end of stdout, and of the lines up to the one that
\* threw when a line has thrown.
C29_ChunkingDoesNotMatter ==
    [][ChunkingOfCleanLines /\ SettlesOnWhatWasRead]_vars

\* the rules of the list of the host's OS family
RulesForThisOS(cfg, windows) ==
    ParseLineList(IF windows THEN cfg.blockedCommandsWindows ELSE cfg.blockedCommandsUnix)

\* C30: a tool use is vetoed only by a rule of the list of the host's OS
\* family; a rule that is only in the other list vetoes nothing.
C30_OnlyHostRulesVeto ==
    [][Len(toolLog') > Len(toolLog) =>
          (toolLog'[Len(toolLog')].verdict = "blocked" =>
              toolLog'[Len(toolLog')].rule \in RangeOf(RulesForThisOS(settings, cliEnv.windows)))]_vars

\* ------------------------------------------------------------------------
\* C31  Every call of generateConversationTitle that reaches the spawn
\*      passes --permission-mode plan, once, and passes neither
\*      --dangerously-skip-permissions nor --resume, whatever permission
\*      mode the settings hold and whatever the session map holds.
\* ------------------------------------------------------------------------
C31_TitleArgsArePlanOnly ==
    titleCall.argv # <<>> =>
        /\ \E i \in 1..(Len(titleCall.argv) - 1) :
                titleCall.argv[i] = "--permission-mode" /\ titleCall.argv[i + 1] = "plan"
        /\ Cardinality({i \in 1..Len(titleCall.argv) : titleCall.argv[i] = "--permission-mode"}) = 1
        /\ \A i \in 1..Len(titleCall.argv) :
                titleCall.argv[i] \notin {"--dangerously-skip-permissions", "--resume",
                                         "bypassPermissions", "acceptEdits"}

\* a title call spawned under the yolo mode for a map that holds a session
\* id that a turn would resume
C31_Witness ==
    /\ titleCall.proc = "alive" /\ titleCall.argv # <<>>
    /\ settings.permissionMode = "yolo"
    /\ \E c \in Conversations : ResumeSessionId(sessionByConversation[c]) # <<>>

\* ------------------------------------------------------------------------
\* C32  After updateSettings(c), a turn started afterwards takes its
\*      arguments and the environment of its subprocess from c alone: the
\*      subprocess sees the overrides of c.environmentVariables and no
\*      override of an earlier configuration that c does not hold.
\* ------------------------------------------------------------------------
\* the last value of key in the environmentVariables text, <<>> = none
LastOverride(pairs, key) ==
    LET at == {i \in 1..Len(pairs) : pairs[i][1] = key}
    IN  IF at = {} THEN <<>>
        ELSE <<pairs[CHOOSE i \in at : \A j \in at : j <= i][2]>>

\* the overrides a subprocess started under cfg is to see
OverridesOf(cfg) ==
    LET pairs == ParseEnvironmentVariables(cfg.environmentVariables)
    IN  {<<pairs[i][1], LastOverride(pairs, pairs[i][1])[1]>> : i \in 1..Len(pairs)}

C32_TurnTakesCurrentSettingsOnly ==
    [][args' # args =>
          /\ args'.permission = AppendPermissionModeArgs(<<>>, settings)
          /\ cliEnv'.vars = OverridesOf(settings)]_vars

\* ------------------------------------------------------------------------
\* C33  Once the stream-end callback of a turn has fired, no stream, tool-use
\*      or tool-result callback is caused by the output of that turn's
\*      subprocess and the turn writes the session map no more, also when
\*      the grace period of the drain ran out before stdout was at its end.
\* ------------------------------------------------------------------------
C33_QuietAfterStreamEnd ==
    [][pc[1] = "done" =>
          UNCHANGED <<cbLog, toolLog, toolResults, deltaText, sessionByConversation>>]_vars

\* ------------------------------------------------------------------------
\* C34  When an event of the turn carries a shell-like tool_use with id X
\*      whose command matches a rule of the blocklist, no tool_use with id X
\*      is delivered to the tool-use callback at any point of the turn, an
\*      earlier content_block_start for X with an empty input included.
\* ------------------------------------------------------------------------
C34_BlockedIdNeverDelivered ==
    \A i, j \in DOMAIN toolLog :
        (NamesShell(toolLog[i].name) /\ MatchesRule(toolLog[i]) /\ toolLog[j].id = toolLog[i].id)
            => toolLog[j].verdict # "delivered"

\* ------------------------------------------------------------------------
\* C35  In a turn without text deltas whose assistant event carries the text
\*      X and whose result event at the end carries the same X, the content
\*      of the final message is X: the text is not appended twice.
\* ------------------------------------------------------------------------
C35_ReplyTextOnce ==
    (pc[1] = "done" /\ Messages(1) = 1 /\ stdoutRead = ReplyTwice) =>
        messageContent = EvAssistantText.content[1].text

\* next is prev with something non-empty behind it
IsExtended(prev, next) == Len(next) > Len(prev) /\ SubSeq(next, 1, Len(prev)) = prev

\* every payload of the log extends the one before it and carries the id
PayloadsGrow(log, id) ==
    \A i \in DOMAIN log :
        /\ IsExtended(IF i = 1 THEN <<>> ELSE log[i - 1].text, log[i].text)
        /\ log[i].messageId = id

\* C37: within a turn every payload of the stream callback is the payload
\* before it extended by a non-empty suffix (the first one a non-empty
\* text), all of them carry the message id of the turn, and when the turn
\* ends with its message, the message has that id and its content is the
\* last payload delivered before it.
C37_StreamPayloadsGrow ==
    [][/\ PayloadsGrow(streamPayloads', AssistantMessage(1).id)
       /\ (Messages(1) = 0 /\ Messages(1)' = 1) =>
             /\ streamPayloads' # <<>>
             /\ messageContent' = streamPayloads'[Len(streamPayloads')].text]_vars

\* a turn has ended with its message after three calls of the stream callback
C37_Witness ==
    /\ pc[1] = "done" /\ Messages(1) = 1
    /\ Len(streamPayloads) = 3
    /\ messageContent = streamPayloads[3].text

\* C36: every assistant message that a conversation holds is the message of
\* a turn whose sendMessage was called with the id of that conversation,
\* whatever the user switched to, created or deleted during the turn.
C36_MessageGoesToItsConversation ==
    \A k \in DOMAIN messages : \A i \in DOMAIN messages[k] :
        messages[k][i].role = "assistant" => turnConversation[messages[k][i].turn] = k

\* C38: a call of generateConversationTitle that has started its
\* subprocess returns in the end, whatever the subprocess does: also when
\* it prints nothing more without exiting or closing its stdout.
C38_TitleCallReturns ==
    (titleCall.pc \notin {"idle", "returned"}) ~> (titleCall.pc = "returned")

\* the part of C39 about the active id: null, or the id of a listed conversation
ActiveIdIsListed == activeConversationId = NoId \/ activeConversationId \in ConvIdsOf(conversations)

\* the part of C39 about the message map: every key is the id of a listed conversation
MessageKeysAreListed == DOMAIN messages \subseteq ConvIdsOf(conversations)

\* C39: after any sequence of create, switchTo, delete, addMessage,
\* updateTitle, save, load and clear the active id is null or listed, and
\* every key of the message map is the id of a listed conversation.
C39_ManagerInvariants == ActiveIdIsListed /\ MessageKeysAreListed

====
